---------------------------- MODULE Spec2Model ----------------------------
(***************************************************************************)
(* Clock/data recovery PLL of scopehal (ClockRecoveryFilter.cpp).          *)
(*                                                                         *)
(* One behaviour of Spec is one call of ClockRecoveryFilter::Refresh:      *)
(* Init draws the inputs (the crossings FindZeroCrossings returns, the     *)
(* time of the last input sample, the input timescale, the nominal period  *)
(* and the optional gate waveform), the actions are the steps of Refresh   *)
(* and of the two PLL inner loops, and the run ends with pc = "done".      *)
(*                                                                         *)
(* Indices are the C++ ones (0-based): At(s, i) is s[i].                   *)
(*                                                                         *)
(* Arithmetic.  int64 values are integers; every value of the model stays  *)
(* far inside the int64 range.  A double or float expression whose result  *)
(* is stored in an int64 is truncated towards zero (TruncDiv).  The gated  *)
(* loop only ever holds integer-valued floats, which are exact.  The       *)
(* non-gated loop keeps the period in a binary32 float (fperiod): the      *)
(* model holds a float as an integer count of 1/FloatScale and rounds      *)
(* every float result to the nearest binary32 value, ties to even          *)
(* (FRound), which is exact for magnitudes from 128 to 2^14 fs.            *)
(*                                                                         *)
(* The module also holds four smaller programs of the repository, each     *)
(* with its own variables and its own specification, the variables of the  *)
(* others staying at rest: SpecVICP (VICPSocketTransport: sequence         *)
(* numbers, SendCommand, ReadReply), SpecCSV (one call of                  *)
(* CSVImportFilter::OnFileNameChanged) and SpecArea (one call of           *)
(* AreaMeasurement::Refresh).  SpecRepeat is Spec with several calls of    *)
(* Refresh on one filter object.  SpecSpectrogram is any number of calls   *)
(* of ComplexSpectrogramFilter::Refresh on one filter object.              *)
(***************************************************************************)
EXTENDS Integers, Sequences, FiniteSets, TLC

VARIABLES
    din,            \* input 0: "null", "supported" (one of the four kinds), "other"
    crossings,      \* what FindZeroCrossings returns for a supported input
    tend,           \* scaled time of the last input sample
    timescale,      \* din->m_timescale
    nominalPeriod,  \* round(FS_PER_SECOND / symbol rate)
    hasGate,        \* GetInputWaveform(1) != nullptr
    gate,           \* the gate samples: records [off, dur, val], scaled
    pc,             \* position in Refresh
    edges,          \* vector<int64_t> edges
    initialPeriod, halfPeriod, fnyquist,
    igate, nedge, edgepos, period, fperiod, center, gating, tlast,
    offsets,        \* cap.m_offsets
    samples,        \* cap.m_samples
    durations,      \* cap.m_durations
    data,           \* what SetData received: "unset", "null", "cap"
    path,           \* synthesis path taken: "none", "generic", "avx2"
    aborted,        \* history: the Nyquist check of the loop fired
    abortLen,       \* history: Len(offsets) when the violating edge was visited
    reacqs,         \* history: number of reacquisitions performed
    emitPeriods,    \* history: the period in force at each append to offsets
    maxEdgeRead,    \* history: the largest index edges[] was read at, or -1
    maxGateRead,    \* history: the largest index a gate sample was read at, or -1
    visits,         \* history: passes of the inner while loop (edges visited)
    corrections,    \* history: visits that entered the if(tlast != 0) block
    activeSeen,     \* history: a gate scan ran with edgepos in a true gate sample
    run,            \* number of the Refresh call in progress, from 1
    firstCall,      \* the inputs and the result of call 1, once it has returned
    m_nextSequence, \* VICPSocketTransport: sequence number of the next frame
    m_lastSequence, \* VICPSocketTransport: sequence number last handed out
    wire,           \* bytes given to SendRawData that the peer has not taken yet
    rx,             \* bytes the socket holds for ReadRawData
    payload,        \* ReadReply: the string being assembled
    reply,          \* ReadReply: [done, error, text], what the last call returned
    vpc,            \* "idle", or "read" inside the loop of ReadReply
    lastCall,       \* history: [op, arg] of the last call that took a sequence number
    blocks,         \* history: [op, seq, data] of the blocks ReadReply has taken in this call
    csvFile,        \* CSVImportFilter: the lines of the file, each a sequence of characters
    unset,          \* the value an element of a resized buffer holds before it is written
    csvpc,          \* "idle", "parse", "fill", "done", "error", "threw", "ub"
    nrow,           \* lines read so far
    names,          \* channel names
    columns,        \* columns[i][j]: the text of data field i of row j
    timestamps,     \* the first field of every data row, converted
    ncols,          \* number of data fields of the file, 0 until a row has set it
    streams,        \* the output streams: [name, digital, offsets, durations, samples, data]
    chan,           \* the channel the second loop over the channels is at
    rowFields,      \* history: ncol of every data row parsed
    headerAt,       \* history: number of the line taken as the header row, or 0
    readBefore,     \* history: m_durations[j-1] was read with j = 0
    areaIn,         \* AreaMeasurement: the input waveform and the two parameters
    apc,            \* "idle", "cycle" inside the loop over the cycles, "done"
    cycleEdges,     \* edges, as FindZeroCrossings filled it
    ci,             \* the loop variable i of the loop over the cycles
    cap,            \* the output waveform being built: [offsets, durations, samples]
    capData,        \* what SetData was given: "unset", "null", "cap"
    m_value,        \* m_streams[1].m_value: [kind, v], kind "unset", "nan" or "number"
    areaReads,      \* history: the indices of edges and of samples read by the last pass
    m_cachedFFTLength,    \* ComplexSpectrogramFilter: FFT length of the last reallocation
    m_cachedFFTNumBlocks, \* block count of the last reallocation
    m_vkPlan,       \* the FFT plan: [null, npoints, numBatches]
    m_rdinbuf,      \* size of the windowed input buffer
    m_rdoutbuf,     \* size of the FFT output buffer
    sgData,         \* what SetData was given: [kind, width, height], kind "unset", "null", "cap"
    sgCall          \* history: [kind, i, q, fftlen, nblocks, plan] of the last call of Refresh

inputs == <<din, crossings, tend, timescale, nominalPeriod, hasGate, gate>>
loopv  == <<igate, nedge, edgepos, period, fperiod, center, gating, tlast>>
setup  == <<edges, initialPeriod, halfPeriod, fnyquist>>
outv   == <<offsets, samples, durations, data, path>>
hist   == <<aborted, abortLen, reacqs, emitPeriods, maxEdgeRead, visits, corrections,
             activeSeen, maxGateRead>>
calls  == <<run, firstCall>>
vicpv  == <<m_nextSequence, m_lastSequence, wire, rx, payload, reply, vpc, lastCall,
             blocks>>
csvv   == <<csvFile, unset, csvpc, nrow, names, columns, timestamps, ncols, streams, chan,
             rowFields, headerAt, readBefore>>
clockv == <<inputs, pc, setup, loopv, outv, hist, calls>>
areav  == <<areaIn, apc, cycleEdges, ci, cap, capData, m_value, areaReads>>
spectrov == <<m_cachedFFTLength, m_cachedFFTNumBlocks, m_vkPlan, m_rdinbuf, m_rdoutbuf,
               sgData, sgCall>>
others == <<vicpv, csvv, areav, spectrov>>
vicpOthers == <<clockv, csvv, areav, spectrov>>
csvOthers == <<clockv, vicpv, areav, spectrov>>
areaOthers == <<clockv, vicpv, csvv, spectrov>>
spectroOthers == <<clockv, vicpv, csvv, areav>>
vars   == <<clockv, others>>

-----------------------------------------------------------------------------
(* Bounds of the model *)

MaxEdges == 4          \* longest crossing sequence of the enumerated inputs
MaxGate == 4           \* most gate samples
MaxLong == 68          \* most crossings of the long periodic inputs
MaxDrift == 6          \* crossings of the inputs with several corrections
MaxLock == 120         \* crossings of the inputs on which the period settles
MaxCmd == 2            \* longest command given to SendCommand, in bytes
MaxBlocks == 3         \* most blocks the peer has sent before ReadReply is called
MaxLines == 3          \* most lines of a CSV file
MaxSamples == 6        \* most samples of the waveform given to AreaMeasurement

(* Program constants *)

ReacqWindow == 512     \* intervals inspected by a reacquisition
AvxWidth == 32         \* bytes written by one 256-bit store
ByteRange == 256       \* values of a uint8_t
Newline == 10          \* '\n'
OP_DATA == 128         \* header flag: the block carries data
OP_EOI == 1            \* header flag: the block ends a message
DigitalProbe == 10     \* rows inspected to tell a digital column from an analog one

-----------------------------------------------------------------------------
(* Helpers *)

At(s, i) == s[i + 1]

Min(a, b) == IF a < b THEN a ELSE b

Max(a, b) == IF a > b THEN a ELSE b

\* C++ conversion of a rational num/den (den > 0) to int64: towards zero
TruncDiv(num, den) == IF num >= 0 THEN num \div den ELSE -((-num) \div den)

\* round(): nearest integer, halves away from zero (den > 0)
RoundDiv(num, den) ==
    IF num >= 0 THEN (2 * num + den) \div (2 * den)
    ELSE -((2 * (-num) + den) \div (2 * den))

Abs(x) == IF x < 0 THEN -x ELSE x

\* q + num/den (0 <= num <= den) rounded to the nearest integer, ties to even
RoundEvenFrom(q, num, den) ==
    IF 2 * num < den THEN q
    ELSE IF 2 * num > den THEN q + 1
    ELSE IF q % 2 = 0 THEN q ELSE q + 1

\* spacing of the binary32 values at magnitude a, a and the result in 1/FloatScale
RECURSIVE FloatUlp(_)
FloatUlp(a) == IF a < 2^24 THEN 1 ELSE 2 * FloatUlp(a \div 2)

\* the binary32 value nearest to x, x in 1/FloatScale
FRound(x) ==
    LET a == Abs(x)
        u == FloatUlp(a)
        r == u * RoundEvenFrom(a \div u, a % u, u)
    IN  IF x < 0 THEN -r ELSE r

\* the binary32 value nearest to num/den, for num/den > 0 in 1/FloatScale
FRoundQ(num, den) ==
    LET a == num \div den
        u == FloatUlp(a)
    IN  u * RoundEvenFrom(num \div (den * u), num % (den * u), den * u)

\* the binary32 value nearest to f - x/1000 (positive), all in 1/FloatScale
FSubMilli(f, x) ==
    LET xq == x \div 1000
        xr == x % 1000
        a == f - xq - 1
        u == FloatUlp(Abs(a))
    IN  u * RoundEvenFrom(a \div u, 1000 * (a % u) + 1000 - xr, 1000 * u)

RECURSIVE Log2Ceil(_)
Log2Ceil(n) == IF n <= 1 THEN 0 ELSE 1 + Log2Ceil((n + 1) \div 2)

RECURSIVE Log2Floor(_)
Log2Floor(n) == IF n <= 1 THEN 0 ELSE 1 + Log2Floor(n \div 2)

RECURSIVE PowMod(_, _)
PowMod(q, m) == IF q = 0 THEN 1 % m ELSE (2 * PowMod(q - 1, m)) % m

\* round(uiLen * initialFrequency) in binary32, initialFrequency being the
\* binary32 value of 1.0 / ip.  Away from a tie the rounding errors are far too
\* small to matter.  On a tie uiLen/ip = k + 1/2 the product is k + 1/2 times
\* (1 + d), d the relative error of the binary32 1/ip, and is rounded to
\* binary32 again: it stays k + 1/2 (round gives k + 1) unless the error
\* exceeds half a spacing, and then round follows the sign of d.
RoundTimesInverse(uiLen, ip) ==
    IF (2 * uiLen) % ip # 0 \/ ((2 * uiLen) \div ip) % 2 = 0
    THEN RoundDiv(uiLen, ip)
    ELSE LET k == uiLen \div ip
             c == Log2Ceil(ip)
             r == PowMod(23 + c, ip)
             up == 2 * r > ip
             rp == IF up THEN ip - r ELSE r
             lhs == (2 * k + 1) * rp * (IF k = 0 /\ ~up THEN 2 ELSE 1)
             rhs == 2^(c + Log2Floor(2 * k + 1)) \div 2
         IN  IF 2^c = ip \/ lhs <= rhs \/ up THEN k + 1 ELSE k

-----------------------------------------------------------------------------
(* The inputs of one Refresh call *)

Quantum == 400         \* time grid of the enumerated inputs, in fs

\* floats are held as multiples of 1/FloatScale: the binary32 grid at 128..256
FloatScale == 2^16

Gaps == {Quantum \div 8, Quantum, 2 * Quantum}
FirstEdges == {Quantum \div 4}
Periods == {Quantum, 2 * Quantum}
Timescales == {1, Quantum \div 2, Quantum}
GateDurs == {2 * Quantum, 5 * Quantum}

Last(s) == s[Len(s)]

\* the strictly increasing crossing sequences of exactly n crossings
RECURSIVE EdgeSeqs(_)
EdgeSeqs(n) ==
    IF n = 0 THEN {<<>>}
    ELSE IF n = 1 THEN {<<e>> : e \in FirstEdges}
    ELSE {Append(s, Last(s) + g) : s \in EdgeSeqs(n - 1), g \in Gaps}

\* a periodic crossing sequence: n crossings spaced gap apart
PeriodicEdges(first, gap, n) == [i \in 1..n |-> first + (i - 1) * gap]

\* gate waveforms of exactly n contiguous samples starting at offset 0, the
\* values alternating as in a sparse digital waveform
RECURSIVE GateSeqs(_)
GateSeqs(n) ==
    IF n = 0 THEN {<<>>}
    ELSE IF n = 1 THEN {<<[off |-> 0, dur |-> d, val |-> v]>> :
                            d \in GateDurs, v \in BOOLEAN}
    ELSE {Append(g, [off |-> Last(g).off + Last(g).dur, dur |-> d,
                     val |-> ~Last(g).val]) :
            g \in GateSeqs(n - 1), d \in GateDurs}

LastCrossing(c) == IF Len(c) = 0 THEN 0 ELSE Last(c)

\* ReadReply has not returned
NoReply == [done |-> FALSE, error |-> FALSE, text |-> << >>]

\* VICPSocketTransport after its constructor (lines 49-52), nothing received
TransportConstructed ==
    /\ m_nextSequence = 1 /\ m_lastSequence = 1
    /\ wire = << >> /\ payload = << >> /\ reply = NoReply
    /\ vpc = "idle" /\ lastCall = [op |-> "none", arg |-> << >>] /\ blocks = << >>

TransportAtRest == TransportConstructed /\ rx = << >>

\* CSVImportFilter: the locals of OnFileNameChanged before the call
ImportLocals ==
    /\ csvpc = "idle" /\ nrow = 0 /\ names = << >> /\ columns = << >>
    /\ timestamps = << >> /\ ncols = 0 /\ chan = 0
    /\ rowFields = << >> /\ headerAt = 0 /\ readBefore = FALSE

\* CSVImportFilter after its constructor (lines 38-56), no file named
ImportAtRest == ImportLocals /\ csvFile = << >> /\ unset = 0 /\ streams = << >>

\* AreaMeasurement: the locals of Refresh and the outputs before the call
AreaLocals ==
    /\ apc = "idle" /\ cycleEdges = << >> /\ ci = 0
    /\ cap = [offsets |-> << >>, durations |-> << >>, samples |-> << >>]
    /\ capData = "unset" /\ m_value = [kind |-> "unset", v |-> 0]
    /\ areaReads = [edges |-> {}, samples |-> {}]

\* AreaMeasurement after its constructor (lines 39-57), no input connected
AreaAtRest ==
    /\ AreaLocals
    /\ areaIn = [kind |-> "null", length |-> 0, timescale |-> 1, gap |-> 1, crossed |-> {},
                 shift |-> 0, measurement_type |-> "FULL_RECORD", area_type |-> "TRUE_AREA"]

\* m_vkPlan before the first make_unique: a null pointer
NoPlan == [null |-> TRUE, npoints |-> 0, numBatches |-> 0]

\* ComplexSpectrogramFilter after its constructor (lines 40-61): the base class
\* SpectrogramFilter starts both cached numbers at 0, the plan is a null
\* unique_ptr, the buffers are empty and no output has been set
SpectrogramAtRest ==
    /\ m_cachedFFTLength = 0 /\ m_cachedFFTNumBlocks = 0
    /\ m_vkPlan = NoPlan
    /\ m_rdinbuf = 0 /\ m_rdoutbuf = 0
    /\ sgData = [kind |-> "unset", width |-> 0, height |-> 0]
    /\ sgCall = [kind |-> "none", i |-> 0, q |-> 0, fftlen |-> 0, nblocks |-> 0,
                 plan |-> NoPlan]

\* the filter before Refresh has run
ClockRest ==
    /\ pc = "start"
    /\ edges = <<>>
    /\ initialPeriod = 0 /\ halfPeriod = 0 /\ fnyquist = 0
    /\ igate = 0 /\ nedge = 0 /\ edgepos = 0 /\ period = 0 /\ fperiod = 0
    /\ center = 0 /\ gating = FALSE /\ tlast = 0
    /\ offsets = <<>> /\ samples = <<>> /\ durations = <<>>
    /\ data = "unset" /\ path = "none"
    /\ aborted = FALSE /\ abortLen = 0 /\ reacqs = 0 /\ emitPeriods = <<>>
    /\ maxEdgeRead = -1 /\ maxGateRead = -1
    /\ visits = 0 /\ corrections = 0 /\ activeSeen = FALSE
    /\ run = 1 /\ firstCall = [inputs |-> <<>>, offsets |-> <<>>, data |-> "unset"]

\* the values every run of the filter starts from, whatever the inputs
InitRest ==
    /\ ClockRest
    /\ TransportAtRest
    /\ ImportAtRest
    /\ AreaAtRest
    /\ SpectrogramAtRest

\* the filter with nothing connected, Refresh not called
ClockAtRest ==
    /\ din = "null" /\ crossings = << >> /\ tend = 0 /\ timescale = 1
    /\ nominalPeriod = Quantum /\ hasGate = FALSE /\ gate = << >>
    /\ ClockRest

InitShort ==
    /\ din \in {"null", "supported", "other"}
    /\ \E n \in 0..MaxEdges : crossings \in EdgeSeqs(n)
    /\ din # "supported" => crossings = <<>>
    /\ tend = LastCrossing(crossings) + Quantum \div 8
    /\ timescale \in Timescales
    /\ nominalPeriod \in Periods
    /\ hasGate \in BOOLEAN
    /\ \E n \in 0..MaxGate : gate \in GateSeqs(n)
    /\ ~hasGate => gate = <<>>

\* the spacings of the long periodic inputs: the nominal period, and one that
\* makes the period estimate drift upwards
LongSpacings == {Quantum, Quantum + 2 * (Quantum \div 5)}

InitLong ==
    /\ din = "supported"
    /\ \E n \in (MaxLong - 40)..MaxLong : \E g \in LongSpacings :
          crossings = PeriodicEdges(0, g, n)
    /\ tend = LastCrossing(crossings)
    /\ timescale = 1
    /\ nominalPeriod = Quantum
    /\ hasGate = FALSE
    /\ gate = <<>>

\* the gaps of the long gated inputs: mostly one quantum, every third an
\* eighth longer, every seventh doubled, and a fifth longer from TailStart on
TailStart == ReacqWindow + 8

LongGap(i) ==
    IF i >= TailStart THEN Quantum + Quantum \div 5
    ELSE IF i % 7 = 0 THEN 2 * Quantum
    ELSE IF i % 3 = 0 THEN Quantum + Quantum \div 8
    ELSE Quantum

RECURSIVE SumGaps(_, _)
SumGaps(lo, hi) ==
    IF lo > hi THEN 0
    ELSE IF lo = hi THEN LongGap(lo)
    ELSE SumGaps(lo, (lo + hi) \div 2) + SumGaps((lo + hi) \div 2 + 1, hi)

PatternEdges(n) == [k \in 1..n |-> Quantum \div 4 + SumGaps(1, k - 1)]

\* more crossings than one reacquisition inspects, behind a gate that opens
\* after two quanta and closes again three quanta later
InitLongGated ==
    /\ din = "supported"
    /\ \E n \in (TailStart + 3)..(TailStart + 4) : crossings = PatternEdges(n)
    /\ tend = LastCrossing(crossings)
    /\ timescale = 1
    /\ nominalPeriod \in Periods
    /\ hasGate = TRUE
    /\ gate = <<[off |-> 0, dur |-> 2 * Quantum, val |-> FALSE],
                [off |-> 2 * Quantum, dur |-> 3 * Quantum, val |-> TRUE],
                [off |-> 5 * Quantum, dur |-> tend, val |-> FALSE],
                [off |-> 5 * Quantum + tend, dur |-> Quantum, val |-> TRUE]>>

\* exactly MaxDrift crossings one or two quanta apart, with no gate or with a
\* gate that stays active, so that several corrections follow one another
RECURSIVE DriftSeqs(_)
DriftSeqs(n) ==
    IF n = 1 THEN {<<e>> : e \in FirstEdges}
    ELSE {Append(s, Last(s) + g) : s \in DriftSeqs(n - 1), g \in {Quantum, 2 * Quantum}}

InitDrift ==
    /\ din = "supported"
    /\ crossings \in DriftSeqs(MaxDrift)
    /\ tend = LastCrossing(crossings) + Quantum \div 8
    /\ timescale = 1
    /\ nominalPeriod \in Periods
    /\ hasGate \in BOOLEAN
    /\ gate = IF hasGate
              THEN <<[off |-> 0, dur |-> 2 * tend, val |-> TRUE],
                     [off |-> 2 * tend, dur |-> Quantum, val |-> FALSE]>>
              ELSE << >>

\* the same number of crossings one quantum apart, the second one at time 0
InitEarly ==
    /\ din = "supported"
    /\ crossings = PeriodicEdges(-Quantum, Quantum, MaxDrift)
    /\ tend = LastCrossing(crossings) + Quantum \div 8
    /\ timescale = 1
    /\ nominalPeriod = Quantum
    /\ hasGate \in BOOLEAN
    /\ gate = IF hasGate
              THEN <<[off |-> -Quantum, dur |-> 2 * tend, val |-> TRUE],
                     [off |-> 2 * tend - Quantum, dur |-> Quantum, val |-> FALSE]>>
              ELSE << >>

\* a nominal period a tenth above the quantum, the third crossing half a
\* nominal period behind the second one
TiePeriod == Quantum + Quantum \div 10

TieEdges(n) ==
    [i \in 1..n |-> IF i <= 2 THEN Quantum \div 4 + (i - 1) * TiePeriod
                    ELSE Quantum \div 4 + TiePeriod \div 2 + (i - 2) * TiePeriod]

InitTie ==
    /\ din = "supported"
    /\ crossings = TieEdges(MaxDrift)
    /\ tend = LastCrossing(crossings) + Quantum \div 8
    /\ timescale = 1
    /\ nominalPeriod = TiePeriod
    /\ hasGate \in BOOLEAN
    /\ gate = IF hasGate
              THEN <<[off |-> 0, dur |-> 2 * tend, val |-> TRUE],
                     [off |-> 2 * tend, dur |-> Quantum, val |-> FALSE]>>
              ELSE << >>

\* crossings one quantum apart that start half a quantum in, under a gate whose
\* true sample ends (or not) exactly on the third crossing
InitBoundary ==
    /\ din = "supported"
    /\ crossings = PeriodicEdges(Quantum \div 2, Quantum, MaxDrift)
    /\ tend = LastCrossing(crossings) + Quantum \div 8
    /\ timescale = 1
    /\ nominalPeriod = Quantum
    /\ hasGate = TRUE
    /\ \E d \in {Quantum \div 2, Quantum} :
          gate = <<[off |-> 0, dur |-> 2 * Quantum, val |-> FALSE],
                   [off |-> 2 * Quantum, dur |-> d, val |-> TRUE],
                   [off |-> 2 * Quantum + d, dur |-> tend, val |-> FALSE],
                   [off |-> 2 * Quantum + d + tend, dur |-> Quantum, val |-> TRUE]>>

\* MaxLock crossings one or two nominal periods apart, with no gate or under
\* a gate that stays active: long enough for the period to settle
InitLock ==
    /\ din = "supported"
    /\ \E g \in {Quantum, 2 * Quantum} : crossings = PeriodicEdges(0, g, MaxLock)
    /\ tend = LastCrossing(crossings)
    /\ timescale = 1
    /\ nominalPeriod = Quantum
    /\ hasGate \in BOOLEAN
    /\ gate = IF hasGate
              THEN <<[off |-> 0, dur |-> 2 * tend + Quantum, val |-> TRUE],
                     [off |-> 2 * tend + Quantum, dur |-> Quantum, val |-> FALSE]>>
              ELSE << >>

\* a burst of crossings an eighth of a quantum apart followed by a quiet
\* stretch of three quanta, so that the edge search runs out of edges inside
\* one unit interval
InitBurst ==
    /\ din = "supported"
    /\ \E n \in 2..MaxEdges : crossings = PeriodicEdges(Quantum \div 4, Quantum \div 8, n)
    /\ tend = LastCrossing(crossings) + 3 * Quantum
    /\ timescale = 1
    /\ nominalPeriod = Quantum
    /\ hasGate \in BOOLEAN
    /\ gate = IF hasGate
              THEN <<[off |-> 0, dur |-> 2 * tend, val |-> TRUE],
                     [off |-> 2 * tend, dur |-> Quantum, val |-> FALSE]>>
              ELSE << >>

Init ==
    /\ \/ InitShort \/ InitLong \/ InitLongGated \/ InitDrift \/ InitEarly \/ InitTie
       \/ InitBoundary \/ InitLock \/ InitBurst
    /\ InitRest

-----------------------------------------------------------------------------
(* Refresh: input checks and set-up (lines 107-184) *)

\* mutant of AboveNyquist: the floor itself is refused too
AboveNyquist_Inclusive(p, fnyq) == p <= fnyq

\* if(initialPeriod < fnyquist): frequencies above Nyquist of the input are refused
AboveNyquist(p, fnyq) == p < fnyq

\* the checks of Refresh that end it with SetData(nullptr, 0)
NoData ==
    \/ din = "null"
    \/ (IF din = "supported" THEN crossings ELSE <<>>) = <<>>
    \/ AboveNyquist(nominalPeriod, 2 * timescale)

Refresh_NoData ==
    /\ pc = "start"
    /\ NoData
    /\ edges' = IF din = "supported" THEN crossings ELSE <<>>
    /\ data' = "null"
    /\ offsets' = <<>> /\ samples' = <<>> /\ durations' = <<>>
    /\ pc' = "done"
    /\ UNCHANGED <<others, calls, inputs, initialPeriod, halfPeriod, fnyquist, loopv, path, hist>>

\* the output waveform handed to the loops holds no sample yet
SetupEmptySparseDigitalOutputWaveform == << >>

Refresh_Setup ==
    /\ pc = "start"
    /\ ~NoData
    /\ edges' = crossings
    /\ initialPeriod' = nominalPeriod
    /\ halfPeriod' = nominalPeriod \div 2
    /\ fnyquist' = 2 * timescale
    /\ offsets' = SetupEmptySparseDigitalOutputWaveform
    /\ samples' = SetupEmptySparseDigitalOutputWaveform
    /\ durations' = SetupEmptySparseDigitalOutputWaveform
    /\ pc' = "call"
    /\ UNCHANGED <<others, calls, inputs, loopv, data, path, hist>>

\* mutant of InitialTlast: the last real edge of the previous call is kept
InitialTlast_Carried == tlast

\* int64_t tlast = 0 (lines 249 and 435)
InitialTlast == 0

\* if(gate && gate->size()) of line 246
HasGateSamples == hasGate /\ Len(gate) > 0

\* InnerLoopWithGating, lines 237-249
InnerLoopWithGating_Init ==
    /\ pc = "call"
    /\ hasGate
    /\ igate' = 0
    /\ nedge' = 1
    /\ edgepos' = At(edges, 0)
    /\ period' = initialPeriod
    /\ gating' = IF HasGateSamples THEN ~At(gate, 0).val ELSE FALSE
    /\ maxGateRead' = IF HasGateSamples THEN 0 ELSE maxGateRead
    /\ tlast' = InitialTlast
    /\ maxEdgeRead' = 0
    /\ pc' = "loop"
    /\ UNCHANGED <<others, calls, inputs, setup, fperiod, center, outv, aborted, abortLen, reacqs,
                   emitPeriods, visits, corrections, activeSeen>>

\* InnerLoopWithNoGating, lines 425-437
InnerLoopWithNoGating_Init ==
    /\ pc = "call"
    /\ ~hasGate
    /\ nedge' = 1
    /\ edgepos' = At(edges, 0)
    /\ tlast' = InitialTlast
    /\ period' = initialPeriod
    /\ fperiod' = initialPeriod * FloatScale
    /\ maxEdgeRead' = 0
    /\ pc' = "loop"
    /\ UNCHANGED <<others, calls, inputs, setup, igate, center, gating, outv, aborted, abortLen,
                   reacqs, emitPeriods, visits, corrections, activeSeen, maxGateRead>>

\* mutant of LoopCond: the bound on nedge is off by one
LoopCond_OffByOne == edgepos < tend /\ nedge <= Len(edges)

\* the condition of both for loops: (edgepos < tend) && (nedge < edges.size()-1)
LoopCond == edgepos < tend /\ nedge < Len(edges) - 1

Loop_Enter ==
    /\ pc = "loop"
    /\ LoopCond
    /\ center' = period \div 2
    /\ pc' = IF hasGate THEN "gate" ELSE "track"
    /\ maxEdgeRead' = IF hasGate THEN maxEdgeRead ELSE Max(maxEdgeRead, nedge)
    /\ UNCHANGED <<others, calls, inputs, setup, igate, nedge, edgepos, period, fperiod, gating,
                   tlast, outv, aborted, abortLen, reacqs, emitPeriods, visits,
                   corrections, activeSeen, maxGateRead>>

Loop_Exit ==
    /\ pc = "loop"
    /\ ~LoopCond
    /\ pc' = "fill"
    /\ UNCHANGED <<others, calls, inputs, setup, loopv, outv, hist>>

-----------------------------------------------------------------------------
(* Gate tracking and reacquisition (lines 254-330) *)

\* mutant of ScanGate: the cursor starts over once the samples are used up
RECURSIVE ScanGate_StartOver(_, _)
ScanGate_StartOver(ig, pos) ==
    IF ig < Len(gate) - 1
    THEN LET a == At(gate, ig).off
             b == a + At(gate, ig).dur
         IN  IF pos < a THEN [igate |-> ig, hit |-> FALSE]
             ELSE IF pos > b THEN ScanGate_StartOver(ig + 1, pos)
             ELSE [igate |-> ig, hit |-> TRUE]
    ELSE [igate |-> 0, hit |-> FALSE]

\* the while loop over the gate samples: where it stops, and whether it stopped
\* on a sample containing edgepos ("Good alignment")
RECURSIVE ScanGate(_, _)
ScanGate(ig, pos) ==
    IF ig < Len(gate) - 1
    THEN LET a == At(gate, ig).off
             b == a + At(gate, ig).dur
         IN  IF pos < a THEN [igate |-> ig, hit |-> FALSE]
             ELSE IF pos > b THEN ScanGate(ig + 1, pos)
             ELSE [igate |-> ig, hit |-> TRUE]
    ELSE [igate |-> ig, hit |-> FALSE]

\* the largest index the while loop reads a gate sample at (offset and duration
\* in every pass, the value in the last one too), or -1 when it makes no pass
ScanReadIndex(ig, pos) ==
    IF ig < Len(gate) - 1 THEN Min(ScanGate(ig, pos).igate, Len(gate) - 2) ELSE -1

\* mutant of LengthsCount: the window is not capped
LengthsCount_Uncapped(n) ==
    Cardinality({i \in 1..Len(edges) : \A j \in 1..i : ~(j + n >= Len(edges))})

\* for(i=1; i<=512; i++) { if(i + nedge >= edges.size()) break; push_back }:
\* pass i pushes when no pass up to it has left the loop
LengthsCount(n) ==
    Cardinality({i \in 1..ReacqWindow : \A j \in 1..i : ~(j + n >= Len(edges))})

\* lengths: the edge-to-edge intervals after edges[n]
CollectLengths(n) ==
    [i \in 1..LengthsCount(n) |-> At(edges, n + i) - At(edges, n + i - 1)]

\* the elements of s with a value in V, in ascending order
RECURSIVE SortedRun(_, _)
SortedRun(s, V) ==
    IF V = {} THEN << >>
    ELSE LET v == CHOOSE w \in V : \A u \in V : w <= u
         IN  [i \in 1..Cardinality({j \in DOMAIN s : s[j] = v}) |-> v]
                 \o SortedRun(s, V \ {v})

\* std::sort(lengths.begin(), lengths.end()): the elements in ascending order
StdSort(s) == SortedRun(s, {s[i] : i \in DOMAIN s})

\* the number of intervals the collecting loop reads, edges[n+i] being its
\* furthest read
ReacqCount(n) == LengthsCount(n)

\* (w >= 0.75*median) && (w <= 1.25*median); both products are exact in double
NearMedian(w, median) == 4 * w >= 3 * median /\ 4 * w <= 5 * median

\* the sum and the count of the lengths near the median, from lo to hi
RECURSIVE SumNear(_, _, _, _)
SumNear(lengths, median, lo, hi) ==
    IF lo > hi THEN [sum |-> 0, navg |-> 0]
    ELSE IF lo = hi
    THEN IF NearMedian(lengths[lo], median)
         THEN [sum |-> lengths[lo], navg |-> 1]
         ELSE [sum |-> 0, navg |-> 0]
    ELSE LET l == SumNear(lengths, median, lo, (lo + hi) \div 2)
             r == SumNear(lengths, median, (lo + hi) \div 2 + 1, hi)
         IN  [sum |-> l.sum + r.sum, navg |-> l.navg + r.navg]

\* auto median = lengths[lengths.size() / 2]
MedianOf(sorted) == At(sorted, Len(sorted) \div 2)

\* avg of lines 283-312, for a reacquisition with nedge = n
ReacqAvg(n) ==
    LET lengths == StdSort(CollectLengths(n))
        median == MedianOf(lengths)
        r == SumNear(lengths, median, 1, Len(lengths))
    IN  r.sum \div r.navg

\* mutant of ResyncPos: the first edge is taken instead of the next one
ResyncPos_FirstEdge(n, avg) == At(edges, 0) + avg

\* int64_t tnext = edges[nedge]; edgepos = tnext + period
ResyncPos(n, avg) == At(edges, n) + avg

\* mutant of JustUngated: was_gating is not consulted
JustUngated_AnyActive(nowGating, wasGating) == ~nowGating

\* if(!gating && was_gating): the clock just got ungated
JustUngated(nowGating, wasGating) == ~nowGating /\ wasGating

\* gate->size()-1 is an unsigned subtraction: with an empty gate waveform the
\* scan reads gate sample 0, which does not exist
GateScan_Undefined ==
    /\ pc = "gate"
    /\ Len(gate) = 0
    /\ maxGateRead' = Max(maxGateRead, igate)
    /\ pc' = "ub"
    /\ UNCHANGED <<others, calls, inputs, setup, loopv, outv, aborted, abortLen, reacqs,
                   emitPeriods, maxEdgeRead, visits, corrections, activeSeen>>

\* gate sample j (1-based) is true and covers pos: [offset, offset + duration)
ActiveAt(j, pos) ==
    gate[j].val /\ gate[j].off <= pos /\ pos < gate[j].off + gate[j].dur

GateScan ==
    /\ pc = "gate"
    /\ Len(gate) > 0
    /\ LET r == ScanGate(igate, edgepos)
           g == IF r.hit THEN ~At(gate, r.igate).val ELSE gating
       IN  /\ igate' = r.igate
           /\ gating' = g
           /\ IF r.hit /\ JustUngated(g, gating)
              THEN LET avg == ReacqAvg(nedge)
                   IN  /\ period' = avg
                       /\ initialPeriod' = avg
                       /\ halfPeriod' = avg \div 2
                       /\ edgepos' = ResyncPos(nedge, avg)
                       /\ reacqs' = reacqs + 1
                       /\ maxEdgeRead' = Max(maxEdgeRead, nedge + ReacqCount(nedge))
              ELSE /\ maxEdgeRead' = Max(maxEdgeRead, nedge)
                   /\ UNCHANGED <<period, initialPeriod, halfPeriod, edgepos, reacqs>>
    /\ activeSeen' = (activeSeen \/ \E j \in 1..Len(gate) : ActiveAt(j, edgepos))
    /\ maxGateRead' = Max(maxGateRead, ScanReadIndex(igate, edgepos))
    /\ pc' = "track"
    /\ UNCHANGED <<others, calls, inputs, edges, fnyquist, nedge, fperiod, center, tlast, outv,
                   aborted, abortLen, emitPeriods, visits, corrections>>

-----------------------------------------------------------------------------
(* The edge search of one unit interval and the PLL correction *)

\* mutant of EdgeInUI: the bound on nedge is off by one
EdgeInUI_UpToSize == nedge < Len(edges) /\ At(edges, nedge) + center < edgepos

\* the condition of both inner while loops:
\* (tnext + center < edgepos) && (nedge+1 < edges.size()), tnext being edges[nedge]
EdgeInUI == nedge + 1 < Len(edges) /\ At(edges, nedge) + center < edgepos

\* if(dphase > halfPeriod) dphase -= period; if(dphase < -halfPeriod) dphase += period
WrapPhase(d, hp, p) ==
    LET d1 == IF d > hp THEN d - p ELSE d
    IN  IF d1 < -hp THEN d1 + p ELSE d1

\* gated loop, lines 340-347
PhaseErrorGated(pos, tnext, p, hp) == WrapPhase((pos - tnext) - p, hp, p)

\* gated loop, lines 352-357: uiLen after the glitch check and the division
\* (numUIs is an integer-valued float, so numUIs < 0.1 is 10*numUIs < 1)
UiLenGated(tnext, tl, ip, p) ==
    LET uiLen == tnext - tl
        numUIs == RoundDiv(uiLen, ip)
    IN  IF 10 * numUIs < 1 THEN p ELSE TruncDiv(uiLen, numUIs)

\* period -= dperiod * 0.006; period -= dphase * 0.002 (double, stored in int64)
CorrectPeriodGated(p, dperiod, dphase) ==
    LET p1 == TruncDiv(1000 * p - 6 * dperiod, 1000)
    IN  TruncDiv(1000 * p1 - 2 * dphase, 1000)

\* the bang-bang phase shift of the gated loop: period / 400, by the sign of dphase
NudgeGated(pos, p, dphase) ==
    IF dphase > 0 THEN pos - TruncDiv(p, 400) ELSE pos + TruncDiv(p, 400)

\* if(period < fnyquist) of both loops
BelowNyquist(p, fnyq) == p < fnyq

\* if(tlast != 0): a previous real edge has been seen
HaveLastEdge(tl) == tl # 0

\* one pass of the while loop of InnerLoopWithGating (lines 336-406)
TrackEdge_Gated ==
    /\ pc = "track"
    /\ hasGate
    /\ EdgeInUI
    /\ LET tnext == At(edges, nedge)
           dphase == PhaseErrorGated(edgepos, tnext, period, halfPeriod)
           dperiod == period - UiLenGated(tnext, tlast, initialPeriod, period)
           p2 == CorrectPeriodGated(period, dperiod, dphase)
       IN  IF ~gating /\ HaveLastEdge(tlast)
           THEN /\ period' = p2
                /\ edgepos' = NudgeGated(edgepos, p2, dphase)
                /\ corrections' = corrections + 1
                /\ IF BelowNyquist(p2, fnyquist)
                   THEN /\ nedge' = Len(edges)
                        /\ tlast' = tlast
                        /\ aborted' = TRUE
                        /\ abortLen' = Len(offsets)
                        /\ maxEdgeRead' = maxEdgeRead
                        /\ pc' = "emit"
                   ELSE /\ nedge' = nedge + 1
                        /\ tlast' = tnext
                        /\ maxEdgeRead' = Max(maxEdgeRead, nedge + 1)
                        /\ UNCHANGED <<aborted, abortLen>>
                        /\ pc' = "track"
           ELSE /\ nedge' = nedge + 1
                /\ tlast' = tnext
                /\ maxEdgeRead' = Max(maxEdgeRead, nedge + 1)
                /\ pc' = "track"
                /\ UNCHANGED <<period, edgepos, aborted, abortLen, corrections>>
    /\ visits' = visits + 1
    /\ UNCHANGED <<others, calls, inputs, setup, igate, fperiod, center, gating, outv, reacqs,
                   emitPeriods, activeSeen, maxGateRead>>

\* non-gated loop, lines 449-456: fdphase in 1/FloatScale
PhaseErrorNoGating(pos, tnext, ip, fhp, fp) ==
    LET d == ((pos - tnext) - ip) * FloatScale
        d1 == IF d > fhp * FloatScale THEN FRound(d - fp) ELSE d
    IN  IF d1 < -(fhp * FloatScale) THEN FRound(d1 + fp) ELSE d1

\* non-gated loop, lines 461-471: fdperiod in 1/FloatScale
FreqErrorNoGating(tnext, tl, ip, fp) ==
    LET uiLen == tnext - tl
        glitchCutoff == ip \div 10
        numUIs == RoundTimesInverse(uiLen, ip)
    IN  IF uiLen > glitchCutoff /\ numUIs # 0
        THEN FRound(fp - FRoundQ(uiLen * FloatScale, numUIs))
        ELSE 0

\* fperiod -= (fdperiod * 0.006) + (fdphase * 0.002)
CorrectPeriodNoGating(fp, fdperiod, fdphase) ==
    FSubMilli(fp, 6 * fdperiod + 2 * fdphase)

\* bangbang = fperiod * 0.0025, applied by the sign of the unwrapped dphase
NudgeNoGating(pos, fp, dphase) ==
    LET bangbang == TruncDiv(fp, 400 * FloatScale)
    IN  IF dphase > 0 THEN pos - bangbang ELSE pos + bangbang

\* one pass of the while loop of InnerLoopWithNoGating (lines 446-517)
TrackEdge_NoGating ==
    /\ pc = "track"
    /\ ~hasGate
    /\ EdgeInUI
    /\ LET tnext == At(edges, nedge)
           dphase == (edgepos - tnext) - period
           fdphase == PhaseErrorNoGating(edgepos, tnext, period, halfPeriod, fperiod)
           fdperiod == FreqErrorNoGating(tnext, tlast, initialPeriod, fperiod)
           f2 == CorrectPeriodNoGating(fperiod, fdperiod, fdphase)
           i2 == TruncDiv(f2, FloatScale)
       IN  IF HaveLastEdge(tlast)
           THEN /\ fperiod' = f2
                /\ period' = i2
                /\ edgepos' = NudgeNoGating(edgepos, f2, dphase)
                /\ corrections' = corrections + 1
                /\ IF BelowNyquist(i2, fnyquist)
                   THEN /\ nedge' = Len(edges)
                        /\ tlast' = tlast
                        /\ aborted' = TRUE
                        /\ abortLen' = Len(offsets)
                        /\ maxEdgeRead' = maxEdgeRead
                        /\ pc' = "emit"
                   ELSE /\ nedge' = nedge + 1
                        /\ tlast' = tnext
                        /\ maxEdgeRead' = Max(maxEdgeRead, nedge + 1)
                        /\ UNCHANGED <<aborted, abortLen>>
                        /\ pc' = "track"
           ELSE /\ nedge' = nedge + 1
                /\ tlast' = tnext
                /\ maxEdgeRead' = Max(maxEdgeRead, nedge + 1)
                /\ pc' = "track"
                /\ UNCHANGED <<period, fperiod, edgepos, aborted, abortLen, corrections>>
    /\ visits' = visits + 1
    /\ UNCHANGED <<others, calls, inputs, setup, igate, center, gating, outv, reacqs, emitPeriods,
                   activeSeen, maxGateRead>>

\* the while condition is false: fall through to the push_back
TrackEdge_Done ==
    /\ pc = "track"
    /\ ~EdgeInUI
    /\ pc' = "emit"
    /\ UNCHANGED <<others, calls, inputs, setup, loopv, outv, hist>>

\* mutant of ShouldEmit: the append ignores the gate
ShouldEmit_Always(g) == TRUE

\* if(!gating) of line 409; the non-gated loop always appends
ShouldEmit(g) == ~g

\* lines 408-410 and 519-520, then the for loop's edgepos += period
Emit ==
    /\ pc = "emit"
    /\ IF hasGate
       THEN IF ShouldEmit(gating)
            THEN /\ offsets' = Append(offsets, edgepos + period \div 2)
                 /\ emitPeriods' = Append(emitPeriods, period)
            ELSE UNCHANGED <<offsets, emitPeriods>>
       ELSE /\ offsets' = Append(offsets, edgepos + center)
            /\ emitPeriods' = Append(emitPeriods, period)
    /\ edgepos' = edgepos + period
    /\ pc' = "loop"
    /\ UNCHANGED <<others, calls, inputs, setup, igate, nedge, period, fperiod, center, gating,
                   tlast, samples, durations, data, path, aborted, abortLen, reacqs,
                   maxEdgeRead, visits, corrections, activeSeen, maxGateRead>>

-----------------------------------------------------------------------------
(* Output synthesis (lines 186-202) *)

\* FillSquarewaveGeneric: value starts false and is inverted before each store
RECURSIVE SquarewaveFrom(_, _, _)
SquarewaveFrom(i, len, value) ==
    IF i >= len THEN <<>>
    ELSE <<~value>> \o SquarewaveFrom(i + 1, len, ~value)

FillSquarewaveGeneric(len) == SquarewaveFrom(0, len, FALSE)

\* bool filler[32] = { false, true, false, true, ... }
Filler(j) == j % 2 = 1

\* the 32-byte stores of FillSquarewaveAVX2: for(i=0; i<end; i+=32) store(ptr+i, fill)
RECURSIVE AvxBlocks(_, _)
AvxBlocks(i, end) ==
    IF i >= end THEN <<>>
    ELSE [j \in 1..AvxWidth |-> Filler(j - 1)] \o AvxBlocks(i + AvxWidth, end)

FillSquarewaveAVX2(len) ==
    LET end == len - (len % AvxWidth)
    IN  IF len = 0 THEN <<>>
        ELSE AvxBlocks(0, end) \o SquarewaveFrom(end, len, FALSE)

\* FillDurations: each duration is the distance to the next offset, the last
\* one copies the one before it
FillDurations(offs) ==
    [i \in 1..Len(offs) |->
        IF i < Len(offs) THEN offs[i + 1] - offs[i]
        ELSE IF i > 1 THEN offs[i] - offs[i - 1]
        ELSE 0]

Fill_AVX2 ==
    /\ pc = "fill"
    /\ samples' = FillSquarewaveAVX2(Len(offsets))
    /\ durations' = FillDurations(offsets)
    /\ path' = "avx2"
    /\ data' = "cap"
    /\ pc' = "done"
    /\ UNCHANGED <<others, calls, inputs, setup, loopv, offsets, hist>>

Fill_Generic ==
    /\ pc = "fill"
    /\ samples' = FillSquarewaveGeneric(Len(offsets))
    /\ durations' = FillDurations(offsets)
    /\ path' = "generic"
    /\ data' = "cap"
    /\ pc' = "done"
    /\ UNCHANGED <<others, calls, inputs, setup, loopv, offsets, hist>>

-----------------------------------------------------------------------------

Next ==
    \/ Refresh_NoData
    \/ Refresh_Setup
    \/ InnerLoopWithGating_Init
    \/ InnerLoopWithNoGating_Init
    \/ Loop_Enter
    \/ Loop_Exit
    \/ GateScan_Undefined
    \/ GateScan
    \/ TrackEdge_Gated
    \/ TrackEdge_NoGating
    \/ TrackEdge_Done
    \/ Emit
    \/ Fill_AVX2
    \/ Fill_Generic

Spec == Init /\ [][Next]_vars

-----------------------------------------------------------------------------
(* Several Refresh calls on one filter object *)

MaxRuns == 3

\* the inputs of the call made between two calls with equal inputs: a gated
\* run whose reacquisition doubles the period, a non-gated run whose
\* corrections raise it, and a call without input
BetweenInputs ==
    LET doubled == PeriodicEdges(Quantum \div 2, 2 * Quantum, MaxDrift)
        drifting == PeriodicEdges(0, Quantum + 2 * (Quantum \div 5), MaxLong - 40)
    IN  { <<"supported", doubled, Last(doubled) + Quantum \div 8, 1, Quantum, TRUE,
            <<[off |-> 0, dur |-> 2 * Quantum, val |-> FALSE],
              [off |-> 2 * Quantum, dur |-> 2 * Last(doubled), val |-> TRUE],
              [off |-> 2 * Quantum + 2 * Last(doubled), dur |-> Quantum, val |-> FALSE]>> >>,
          <<"supported", drifting, Last(drifting), 1, Quantum, FALSE, << >> >>,
          <<"null", << >>, Quantum \div 8, 1, Quantum, FALSE, << >> >> }

\* the next call starts: call 2 gets one of BetweenInputs, later calls the
\* inputs of call 1. Locals of the previous call that the new call has not
\* assigned yet keep what was left in them; the output waveform and what
\* SetData received stay as they are until the call replaces them.
Refresh_Again ==
    /\ pc = "done"
    /\ run < MaxRuns
    /\ run' = run + 1
    /\ firstCall' = IF run = 1
                    THEN [inputs |-> inputs, offsets |-> offsets, data |-> data]
                    ELSE firstCall
    /\ \E y \in IF run = 1 THEN BetweenInputs ELSE {firstCall.inputs} :
          /\ din' = y[1]
          /\ crossings' = y[2]
          /\ tend' = y[3]
          /\ timescale' = y[4]
          /\ nominalPeriod' = y[5]
          /\ hasGate' = y[6]
          /\ gate' = y[7]
    /\ pc' = "start"
    /\ aborted' = FALSE /\ abortLen' = 0 /\ reacqs' = 0 /\ emitPeriods' = <<>>
    /\ maxEdgeRead' = -1 /\ maxGateRead' = -1
    /\ visits' = 0 /\ corrections' = 0 /\ activeSeen' = FALSE
    /\ path' = "none"
    /\ UNCHANGED <<others, setup, loopv, offsets, samples, durations, data>>

InitRepeat ==
    /\ \/ InitShort /\ timescale = 1 /\ nominalPeriod = Quantum /\ Len(gate) <= 1
       \/ InitLong \/ InitLongGated \/ InitDrift \/ InitEarly \/ InitTie \/ InitBoundary
    /\ InitRest

NextRepeat == Next \/ Refresh_Again

SpecRepeat == InitRepeat /\ [][NextRepeat]_vars

-----------------------------------------------------------------------------
(* VICPSocketTransport: sequence numbers, SendCommand, ReadReply *)

\* the strings of exactly n bytes over B
RECURSIVE ByteSeqs(_, _)
ByteSeqs(n, B) ==
    IF n = 0 THEN {<< >>}
    ELSE {Append(t, b) : t \in ByteSeqs(n - 1, B), b \in B}

\* the commands given to SendCommand
Commands == UNION {ByteSeqs(n, {Newline, 65}) : n \in 0..MaxCmd}

\* mutant of BigEndian: least significant byte first
BigEndian_LittleEndian(len) ==
    << len % ByteRange, (len \div 2^8) % ByteRange,
       (len \div 2^16) % ByteRange, (len \div 2^24) % ByteRange >>

\* (len >> 24) & 0xff, (len >> 16) & 0xff, (len >> 8) & 0xff, (len >> 0) & 0xff
BigEndian(len) ==
    << (len \div 2^24) % ByteRange, (len \div 2^16) % ByteRange,
       (len \div 2^8) % ByteRange, len % ByteRange >>

\* a block as it travels: 8 header bytes, then the data
Frame(op, ver, seq, rsv, bytes) ==
    <<op, ver, seq, rsv>> \o BigEndian(Len(bytes)) \o bytes

\* the blocks a peer sends: with and without EOI, with a good header (carrying
\* the sequence number 1 or 2), a bad version or a bad reserved byte
PeerBlocks ==
    {Frame(op, h[1], h[2], h[3], d) :
        op \in {OP_DATA, OP_DATA + OP_EOI},
        h \in {<<1, 1, 0>>, <<1, 2, 0>>, <<2, 1, 0>>, <<1, 1, 1>>},
        d \in {<< >>, <<Newline>>, <<65>>}}

\* the byte streams of exactly n blocks
RECURSIVE PeerStreams(_)
PeerStreams(n) ==
    IF n = 0 THEN {<< >>}
    ELSE {t \o b : t \in PeerStreams(n - 1), b \in PeerBlocks}

InitVICP ==
    /\ ClockAtRest
    /\ ImportAtRest
    /\ AreaAtRest
    /\ SpectrogramAtRest
    /\ TransportConstructed
    /\ \E n \in 0..MaxBlocks : rx \in PeerStreams(n)

\* mutant of NextSequence: plain wrap mod 256
NextSequence_NoSkip(n) == (n + 1) % ByteRange

\* m_nextSequence ++ on a uint8_t; if(m_nextSequence == 0) m_nextSequence = 1
NextSequence(n) ==
    LET m == (n + 1) % ByteRange
    IN  IF m = 0 THEN 1 ELSE m

\* the runs explored send first and read afterwards, one frame in flight
MaySend ==
    /\ vpc = "idle"
    /\ wire = << >>
    /\ rx = << >> /\ blocks = << >> /\ ~reply.done

\* a direct call of GetNextSequenceNumber (lines 114-125)
GetNextSequenceNumber ==
    /\ MaySend
    /\ m_lastSequence' = m_nextSequence
    /\ m_nextSequence' = NextSequence(m_nextSequence)
    /\ lastCall' = [op |-> "getseq", arg |-> << >>]
    /\ UNCHANGED <<vicpOthers, wire, rx, payload, reply, vpc, blocks>>

\* mutant of SendFrame: the sequence number goes into the reserved byte
SendFrame_SequenceAtReserved(seq, cmd) ==
    <<OP_DATA + OP_EOI, 1, 0, seq>> \o BigEndian(Len(cmd)) \o cmd

\* the string SendCommand builds (lines 132-149); OP_DATA | OP_EOI are
\* distinct bits, len is a uint32_t and the commands are shorter than 2^31
SendFrame(seq, cmd) ==
    <<OP_DATA + OP_EOI, 1, seq, 0>> \o BigEndian(Len(cmd)) \o cmd

\* SendCommand (lines 127-154), the call of GetNextSequenceNumber included
SendCommand(cmd) ==
    /\ MaySend
    /\ m_lastSequence' = m_nextSequence
    /\ m_nextSequence' = NextSequence(m_nextSequence)
    /\ wire' = SendFrame(m_nextSequence, cmd)
    /\ lastCall' = [op |-> "send", arg |-> cmd]
    /\ UNCHANGED <<vicpOthers, rx, payload, reply, vpc, blocks>>

\* the peer takes what was sent, and either keeps it or sends it back
Peer_Take ==
    /\ wire # << >>
    /\ wire' = << >>
    /\ UNCHANGED <<vicpOthers, m_nextSequence, m_lastSequence, rx, payload, reply, vpc,
                   lastCall, blocks>>

Peer_Echo ==
    /\ wire # << >>
    /\ rx = << >>
    /\ rx' = wire
    /\ wire' = << >>
    /\ UNCHANGED <<vicpOthers, m_nextSequence, m_lastSequence, payload, reply, vpc,
                   lastCall, blocks>>

\* ReadReply is called (lines 157-160); with nothing to read it would block
ReadReply_Begin ==
    /\ vpc = "idle"
    /\ rx # << >>
    /\ payload' = << >>
    /\ blocks' = << >>
    /\ reply' = NoReply
    /\ vpc' = "read"
    /\ UNCHANGED <<vicpOthers, m_nextSequence, m_lastSequence, wire, rx, lastCall>>

\* mutant of HeaderOK: a sequence number other than m_lastSequence is refused
HeaderOK_CheckSequence(header) ==
    header[2] = 1 /\ header[3] = m_lastSequence /\ header[4] = 0

\* the sanity checks of lines 169-183 pass (the sequence check is commented out)
HeaderOK(header) == header[2] = 1 /\ header[4] = 0

\* (header[4] << 24) | (header[5] << 16) | (header[6] << 8) | header[7], for
\* the lengths below 2^31
BlockLen(header) ==
    header[5] * 2^24 + header[6] * 2^16 + header[7] * 2^8 + header[8]

\* header[0] & OP_EOI
HasEOI(header) == (header[1] \div OP_EOI) % 2 = 1

\* mutant of Skippable: only empty blocks
Skippable_EmptyOnly(bytes) == Len(bytes) = 0

\* (len == 0) || (rxbuf[0] == '\n' && len == 1)
Skippable(bytes) == Len(bytes) = 0 \/ (bytes[1] = Newline /\ Len(bytes) = 1)

\* one pass of the loop of ReadReply (lines 163-229): the reads wait until the
\* socket holds the 8 header bytes and, behind a good header, len data bytes
ReadReply_Block ==
    /\ vpc = "read"
    /\ Len(rx) >= 8
    /\ LET header == SubSeq(rx, 1, 8)
           len == BlockLen(header)
           current_size == Len(payload)
           received == SubSeq(rx, 9, 8 + len)
           resized == payload \o received
       IN  IF ~HeaderOK(header)
           THEN /\ reply' = [done |-> TRUE, error |-> TRUE, text |-> << >>]
                /\ rx' = SubSeq(rx, 9, Len(rx))
                /\ vpc' = "idle"
                /\ UNCHANGED <<payload, blocks>>
           ELSE /\ Len(rx) >= 8 + len
                /\ rx' = SubSeq(rx, 9 + len, Len(rx))
                /\ blocks' = Append(blocks, [op |-> header[1], seq |-> header[3], data |-> received])
                /\ IF Skippable(received) /\ HasEOI(header) /\ current_size = 0
                   THEN /\ payload' = << >>
                        /\ UNCHANGED <<reply, vpc>>
                   ELSE IF HasEOI(header)
                   THEN /\ payload' = resized
                        /\ reply' = [done |-> TRUE, error |-> FALSE, text |-> resized]
                        /\ vpc' = "idle"
                   ELSE /\ payload' = resized
                        /\ UNCHANGED <<reply, vpc>>
    /\ UNCHANGED <<vicpOthers, m_nextSequence, m_lastSequence, wire, lastCall>>

NextVICP ==
    \/ GetNextSequenceNumber
    \/ \E cmd \in Commands : SendCommand(cmd)
    \/ Peer_Take
    \/ Peer_Echo
    \/ ReadReply_Begin
    \/ ReadReply_Block

SpecVICP == InitVICP /\ [][NextVICP]_vars

-----------------------------------------------------------------------------
(* CSVImportFilter::OnFileNameChanged, for an X axis unit other than fs *)

\* the lines of the files read: blank, comment, header rows of two and of one
\* channel, data rows with one and with two data fields, a row that ends at
\* the comma behind its timestamp, a row without a comma.  No line has
\* leading white space, so that pline = line.
CsvLines ==
    { << >>,
      <<"#", "c">>,
      <<"t", ",", "a", ",", "b">>,
      <<"t", ",", "a">>,
      <<"1", ",", "0">>,
      <<"2", ",", "1">>,
      <<"4", ",", "1">>,
      <<"1", ",", "0", ",", "1">>,
      <<"2", ",", "1", ",", "3">>,
      <<"3", ",">>,
      <<"5">> }

RECURSIVE CsvFiles(_)
\* the files of exactly n lines
CsvFiles(n) ==
    IF n = 0 THEN {<< >>}
    ELSE {Append(f, l) : f \in CsvFiles(n - 1), l \in CsvLines}

\* what a buffer element may hold after Resize and before it is written
UnsetValues == {0, 7}

\* a stream left by an earlier import
EarlierStream ==
    [name |-> <<"o">>, digital |-> TRUE, offsets |-> <<0>>, durations |-> <<1>>,
     samples |-> <<1>>, data |-> "sparse"]

InitCSV ==
    /\ ClockAtRest
    /\ TransportAtRest
    /\ AreaAtRest
    /\ SpectrogramAtRest
    /\ ImportLocals
    /\ \E n \in 0..MaxLines : csvFile \in CsvFiles(n)
    /\ unset \in UnsetValues
    /\ streams \in {<< >>, <<EarlierStream>>}

DigitChars == <<"0", "1", "2", "3", "4", "5", "6", "7", "8", "9">>

\* isdigit(c)
IsDigit(c) == \E d \in 1..Len(DigitChars) : DigitChars[d] = c

DigitValue(c) == (CHOOSE d \in 1..Len(DigitChars) : DigitChars[d] = c) - 1

\* the characters lines 203-204 accept in a row of numbers
NumericChar(c) == IsDigit(c) \/ c \in {" ", ",", ".", "-", "e", "+"}

\* the scan of lines 200-211 finds a character that is none of them
LooksLikeHeader(line) == \E j \in 1..Len(line) : ~NumericChar(line[j])

RECURSIVE DigitPrefix(_)
\* the digits a conversion consumes: the characters are digits, letters, commas
DigitPrefix(t) ==
    IF t = << >> \/ ~IsDigit(Head(t)) THEN << >>
    ELSE <<Head(t)>> \o DigitPrefix(Tail(t))

RECURSIVE Decimal(_)
Decimal(ds) ==
    IF ds = << >> THEN 0
    ELSE 10 * Decimal(SubSeq(ds, 1, Len(ds) - 1)) + DigitValue(ds[Len(ds)])

\* stoll(tmp) throws std::invalid_argument when no conversion can be done
StollThrows(t) == DigitPrefix(t) = << >>

stoll(t) == Decimal(DigitPrefix(t))

\* strtof(field, nullptr): 0 when no conversion can be done
strtof(t) == Decimal(DigitPrefix(t))

\* if(columns.size() <= ncol) columns.resize(ncol+1); columns[ncol].push_back(tmp)
PushField(cols, ncol, t) ==
    LET sized == IF Len(cols) <= ncol
                 THEN cols \o [k \in 1..(ncol + 1 - Len(cols)) |-> << >>]
                 ELSE cols
    IN  [sized EXCEPT ![ncol + 1] = Append(@, t)]

\* the locals of one row before its characters are read (lines 184-190)
RowStart ==
    [tmp |-> << >>, foundTimestamp |-> FALSE, headerfields |-> << >>,
     headerRow |-> FALSE, ncol |-> 0, columns |-> columns,
     timestamps |-> timestamps, threw |-> FALSE]

\* the end of a field (lines 194-245) in a row of the file whose names are nm
EndOfField(st, line, nm) ==
    LET first == nm = << >> /\ st.timestamps = << >>
        header == st.headerRow \/ (first /\ LooksLikeHeader(line))
        fields == IF first /\ header THEN Append(st.headerfields, st.tmp)
                  ELSE st.headerfields
    IN  IF header
        THEN [st EXCEPT !.headerRow = TRUE, !.headerfields = fields]
        ELSE IF ~st.foundTimestamp
        THEN IF StollThrows(st.tmp)
             THEN [st EXCEPT !.threw = TRUE]
             ELSE [st EXCEPT !.foundTimestamp = TRUE,
                             !.timestamps = Append(@, stoll(st.tmp)),
                             !.tmp = << >>]
        ELSE [st EXCEPT !.columns = PushField(@, st.ncol, st.tmp),
                        !.ncol = @ + 1,
                        !.tmp = << >>]

RECURSIVE ParseRow(_, _, _, _)
\* the loop over the characters of a row (lines 191-250), from character i
ParseRow(st, line, nm, i) ==
    IF i > Len(line) \/ st.threw THEN st
    ELSE ParseRow(IF line[i] = "," THEN EndOfField(st, line, nm)
                  ELSE [st EXCEPT !.tmp = Append(@, line[i])],
                  line, nm, i + 1)

\* the field left when the row ends (lines 251-257)
LastField(st) ==
    IF st.tmp # << >>
    THEN [st EXCEPT !.columns = PushField(@, st.ncol, st.tmp), !.ncol = @ + 1]
    ELSE st

\* the call, up to the loop over the lines: fopen succeeds, ClearStreams (line 95)
CSV_Open ==
    /\ csvpc = "idle"
    /\ csvFile # << >>
    /\ streams' = << >>
    /\ csvpc' = "parse"
    /\ UNCHANGED <<csvOthers, csvFile, unset, nrow, names, columns, timestamps, ncols,
                   chan, rowFields, headerAt, readBefore>>

\* one pass of the loop over the lines (lines 106-277)
CSV_Line ==
    /\ csvpc = "parse"
    /\ nrow < Len(csvFile)
    /\ nrow' = nrow + 1
    /\ LET line == csvFile[nrow + 1]
           st == LastField(ParseRow(RowStart, line, names, 1))
       IN  IF line = << >> \/ line[1] = "#"
           THEN UNCHANGED <<csvpc, names, columns, timestamps, ncols, rowFields, headerAt>>
           ELSE IF st.threw
           THEN /\ csvpc' = "threw"
                /\ UNCHANGED <<names, columns, timestamps, ncols, rowFields, headerAt>>
           ELSE IF st.headerRow
           THEN /\ names' = Tail(st.headerfields)
                /\ columns' = st.columns
                /\ timestamps' = st.timestamps
                /\ headerAt' = nrow + 1
                /\ UNCHANGED <<csvpc, ncols, rowFields>>
           ELSE /\ columns' = st.columns
                /\ timestamps' = st.timestamps
                /\ rowFields' = Append(rowFields, st.ncol)
                /\ ncols' = IF ncols = 0 THEN st.ncol ELSE ncols
                /\ csvpc' = IF ncols # 0 /\ st.ncol # ncols THEN "error" ELSE csvpc
                /\ UNCHANGED <<names, headerAt>>
    /\ UNCHANGED <<csvOthers, csvFile, unset, streams, chan, readBefore>>

\* string("Field") + to_string(i), for i below 10
FieldName(i) == <<"F", "i", "e", "l", "d", DigitChars[i + 1]>>

\* the names after lines 286-290
PaddedNames ==
    names \o [k \in 1..Max(ncols - Len(names), 0) |-> FieldName(Len(names) + k - 1)]

RECURSIVE ProbeDigital(_, _, _)
\* the loop of lines 301-309 from row j: "digital", "analog", or "ub" when it
\* reads a row the column does not have
ProbeDigital(col, j, lim) ==
    IF j >= lim THEN "digital"
    ELSE IF j >= Len(col) THEN "ub"
    ELSE IF At(col, j) \notin {<<"0">>, <<"1">>} THEN "analog"
    ELSE ProbeDigital(col, j + 1, lim)

\* min(columns[0].size(), timestamps.size())
ImportRows == Min(Len(columns[1]), Len(timestamps))

\* wfm->Resize(nrows) on a new waveform
NewStream(name, digital, nrows) ==
    [name |-> name, digital |-> digital, offsets |-> [j \in 1..nrows |-> unset],
     durations |-> [j \in 1..nrows |-> unset], samples |-> [j \in 1..nrows |-> unset],
     data |-> "sparse"]

\* fgets finds the end of the file: lines 108-109 and 279-350
CSV_EndOfFile ==
    /\ csvpc = "parse"
    /\ nrow = Len(csvFile)
    /\ IF ncols = 0
       THEN /\ csvpc' = "done"
            /\ UNCHANGED <<names, streams>>
       ELSE LET kind == [i \in 1..ncols |->
                            ProbeDigital(columns[i], 0, Min(ImportRows, DigitalProbe))]
            IN  /\ names' = PaddedNames
                /\ IF \E i \in 1..ncols : kind[i] = "ub"
                   THEN csvpc' = "ub" /\ UNCHANGED streams
                   ELSE /\ csvpc' = "fill"
                        /\ streams' = [i \in 1..ncols |->
                               NewStream(PaddedNames[i], kind[i] = "digital", ImportRows)]
    /\ UNCHANGED <<csvOthers, csvFile, unset, nrow, columns, timestamps, ncols, chan,
                   rowFields, headerAt, readBefore>>

\* columns[i][j] as a sample (lines 373-376, 414)
SampleOf(digital, field) ==
    IF digital THEN (IF field = <<"1">> THEN 1 ELSE 0) ELSE strtof(field)

RECURSIVE FillRows(_, _, _, _)
\* the loop over the rows of one channel (lines 360-377, 401-415) from row j,
\* before holding what m_durations[j-1] yields when j is 0
FillRows(w, col, j, before) ==
    LET nrows == Len(w.offsets)
        off == [w.offsets EXCEPT ![j + 1] = At(timestamps, j)]
        last == IF j + 1 = nrows
                THEN [w.durations EXCEPT ![j + 1] =
                         IF j = 0 THEN before ELSE At(w.durations, j - 1)]
                ELSE w.durations
        dur == IF j > 0
               THEN [last EXCEPT ![j] = At(off, j) - At(off, j - 1)]
               ELSE last
        smp == [w.samples EXCEPT ![j + 1] = SampleOf(w.digital, At(col, j))]
    IN  IF j >= nrows THEN w
        ELSE FillRows([w EXCEPT !.offsets = off, !.durations = dur, !.samples = smp],
                      col, j + 1, before)

\* what SetData is given for a filled waveform (lines 379-392, 417-430);
\* TryNormalizeTimebase is not part of the file and may answer either way
Published(w, normalized) ==
    IF normalized THEN "dense"
    ELSE IF w.digital /\ Len(w.offsets) = 0 THEN "null"
    ELSE IF At(w.durations, 0) = 0 THEN "null"
    ELSE "sparse"

\* one pass of the loop over the channels (lines 353-432)
CSV_Fill ==
    /\ csvpc = "fill"
    /\ chan < ncols
    /\ LET w == streams[chan + 1]
           col == columns[chan + 1]
           nrows == Len(w.offsets)
       IN  IF Len(col) < nrows
           THEN \* columns[i][j] is read behind the end of the column
                /\ csvpc' = "ub"
                /\ UNCHANGED <<streams, chan, readBefore>>
           ELSE \E normalized \in BOOLEAN, fault \in BOOLEAN, before \in UnsetValues :
                /\ readBefore' = (readBefore \/ nrows = 1)
                /\ IF (nrows = 1 /\ fault)
                      \/ (nrows = 0 /\ ~normalized /\ ~w.digital)
                   THEN \* m_durations[j-1] with j = 0, or m_durations[0] of an
                        \* empty analog waveform, is outside the buffer
                        csvpc' = "ub" /\ UNCHANGED <<streams, chan>>
                   ELSE /\ nrows # 1 => (before = unset /\ ~fault)
                        /\ LET filled == FillRows(w, col, 0, before)
                           IN  streams' = [streams EXCEPT ![chan + 1] =
                                   [filled EXCEPT !.data = Published(filled, normalized)]]
                        /\ chan' = chan + 1
                        /\ UNCHANGED csvpc
    /\ UNCHANGED <<csvOthers, csvFile, unset, nrow, names, columns, timestamps, ncols,
                   rowFields, headerAt>>

\* the loop over the channels is through: the handler returns
CSV_Return ==
    /\ csvpc = "fill"
    /\ chan = ncols
    /\ csvpc' = "done"
    /\ UNCHANGED <<csvOthers, csvFile, unset, nrow, names, columns, timestamps, ncols,
                   streams, chan, rowFields, headerAt, readBefore>>

NextCSV ==
    \/ CSV_Open
    \/ CSV_Line
    \/ CSV_EndOfFile
    \/ CSV_Fill
    \/ CSV_Return

SpecCSV == InitCSV /\ [][NextCSV]_vars

-----------------------------------------------------------------------------
(* AreaMeasurement::Refresh *)

\* the gaps between the offsets of a sparse input
SparseGaps == {1, 3}

\* the input: a waveform of up to MaxSamples samples whose value changes sign
\* across the sample pairs (k, k+1), k in crossed, and nowhere else; a uniform
\* waveform has sample k at k, a sparse one at gap * k
AreaInputs ==
    [kind : {"uniform"}, length : 0..MaxSamples, timescale : {1, 2}, gap : {1},
     crossed : SUBSET (0..(MaxSamples - 2)), shift : 0..2,
     measurement_type : {"FULL_RECORD", "CYCLE_AREA"},
     area_type : {"TRUE_AREA", "ABSOLUTE_AREA"}]
    \cup
    [kind : {"sparse"}, length : 0..MaxSamples, timescale : {1, 2}, gap : SparseGaps,
     crossed : SUBSET (0..(MaxSamples - 2)), shift : 0..2,
     measurement_type : {"FULL_RECORD", "CYCLE_AREA"},
     area_type : {"TRUE_AREA", "ABSOLUTE_AREA"}]

InitArea ==
    /\ ClockAtRest
    /\ TransportAtRest
    /\ ImportAtRest
    /\ SpectrogramAtRest
    /\ AreaLocals
    /\ \/ areaIn \in {a \in AreaInputs : \A k \in a.crossed : k + 1 < a.length}
       \/ areaIn = [kind |-> "null", length |-> 0, timescale |-> 1, gap |-> 1,
                    crossed |-> {}, shift |-> 0, measurement_type |-> "CYCLE_AREA",
                    area_type |-> "TRUE_AREA"]

\* din->m_offsets[k], in units of the timescale
InOffset(a, k) == a.gap * k

\* din->m_samples[k]: 1 or -1, the sign changing at every crossed pair
InSample(a, k) ==
    IF Cardinality({c \in a.crossed : c < k}) % 2 = 0 THEN 1 ELSE -1

\* the elements of a set of numbers in ascending order
Ascending(S) ==
    [n \in 1..Cardinality(S) |-> CHOOSE x \in S : Cardinality({y \in S : y < x}) = n - 1]

\* FindZeroCrossings at the average voltage: one timestamp for every crossed
\* pair, in order, between the time of sample k and one sample period later
CrossingTimes(a) ==
    LET ks == Ascending(a.crossed)
    IN  [n \in 1..Len(ks) |->
            a.timescale * InOffset(a, ks[n]) + (a.shift * a.timescale) \div 2]

\* (area_type == TRUE_AREA) ? m_samples[j] : fabs(m_samples[j]), times
\* m_durations[j] for a sparse input
Weighted(a, j) ==
    LET v == IF a.area_type = "TRUE_AREA" THEN InSample(a, j) ELSE Abs(InSample(a, j))
    IN  IF a.kind = "sparse" THEN v * a.gap ELSE v

\* the sum of Weighted over the samples lo..hi
SumWeighted(a, lo, hi) ==
    LET plus == Cardinality({j \in lo..hi : Weighted(a, j) > 0})
        minus == Cardinality({j \in lo..hi : Weighted(a, j) < 0})
    IN  (plus - minus) * (IF a.kind = "sparse" THEN a.gap ELSE 1)

\* the output of the full-record mode (lines 107-152): sample i is the running
\* sum times the timescale, held here before the division by FS_PER_SECOND
FullRecord(a) ==
    [offsets |-> IF a.kind = "sparse" THEN [k \in 1..a.length |-> InOffset(a, k - 1)]
                 ELSE << >>,
     durations |-> IF a.kind = "sparse" THEN [k \in 1..a.length |-> a.gap] ELSE << >>,
     samples |-> [k \in 1..a.length |-> SumWeighted(a, 0, k - 1) * a.timescale]]

\* std::numeric_limits<float>::quiet_NaN()
NaN == [kind |-> "nan", v |-> 0]

\* Refresh up to the loop over the cycles (lines 87-176)
Area_Refresh ==
    /\ apc = "idle"
    /\ IF areaIn.kind = "null"
       THEN /\ capData' = "null" /\ m_value' = NaN /\ apc' = "done"
            /\ UNCHANGED <<cycleEdges, cap>>
       ELSE IF areaIn.measurement_type = "FULL_RECORD"
       THEN /\ cap' = FullRecord(areaIn)
            /\ capData' = "cap"
            /\ m_value' = [kind |-> "number",
                            v |-> IF areaIn.length = 0 THEN 0
                                  ELSE Last(FullRecord(areaIn).samples)]
            /\ apc' = "done"
            /\ UNCHANGED cycleEdges
       ELSE /\ cycleEdges' = CrossingTimes(areaIn)
            /\ IF Len(CrossingTimes(areaIn)) < 2
               THEN capData' = "null" /\ m_value' = NaN /\ apc' = "done"
               ELSE apc' = "cycle" /\ UNCHANGED <<capData, m_value>>
            /\ UNCHANGED cap
    /\ UNCHANGED <<areaOthers, areaIn, ci, areaReads>>

\* the value of j when the loop of lines 189-190 or 194-198 ends
CycleStop(start, end, length) ==
    IF start <= Min(end, length - 1) THEN Min(end, length - 1) + 1 ELSE start

\* one pass of the loop over the cycles (lines 179-212)
Area_Cycle ==
    /\ apc = "cycle"
    /\ ci < Len(cycleEdges) - 2
    /\ LET start == At(cycleEdges, ci) \div areaIn.timescale
           end == At(cycleEdges, ci + 2) \div areaIn.timescale
           j == CycleStop(start, end, areaIn.length)
           delta == j - start - 1
           sum == SumWeighted(areaIn, start, j - 1)
       IN  /\ areaReads' = [edges |-> {ci, ci + 2}, samples |-> start..(j - 1)]
           /\ cap' = IF delta # 0
                     THEN [offsets |-> Append(cap.offsets, start),
                           durations |-> Append(cap.durations, delta),
                           samples |-> Append(cap.samples, sum * areaIn.timescale)]
                     ELSE cap
    /\ ci' = ci + 2
    /\ UNCHANGED <<areaOthers, areaIn, apc, cycleEdges, capData, m_value>>

\* the loop over the cycles is through (lines 214-217)
Area_Finish ==
    /\ apc = "cycle"
    /\ ~(ci < Len(cycleEdges) - 2)
    /\ capData' = "cap"
    /\ m_value' = NaN
    /\ apc' = "done"
    /\ UNCHANGED <<areaOthers, areaIn, cycleEdges, ci, cap, areaReads>>

NextArea ==
    \/ Area_Refresh
    \/ Area_Cycle
    \/ Area_Finish

SpecArea == InitArea /\ [][NextArea]_vars

-----------------------------------------------------------------------------
(* Claims *)

\* C1: for every number of offsets, FillSquarewaveAVX2 writes the same samples
\* as FillSquarewaveGeneric, index by index.
C1_AVX2SameAsGeneric ==
    pc = "fill" => FillSquarewaveAVX2(Len(offsets)) = FillSquarewaveGeneric(Len(offsets))

\* C2: in every output waveform Refresh produces, on either synthesis path,
\* sample i is true exactly when i is even (samples[0] is true and neighbours
\* differ).
C2_SamplesAlternate ==
    data = "cap" => \A i \in 0..(Len(samples) - 1) : At(samples, i) = (i % 2 = 0)

C4_NoOffsetInGatedInterval ==
    hasGate =>
        \A i \in 1..Len(offsets) : \A j \in 1..Len(gate) :
            ~gate[j].val => ~(gate[j].off < offsets[i]
                              /\ offsets[i] < gate[j].off + gate[j].dur)

\* C5: once a correction has made period fall below the Nyquist floor, no
\* offset is appended in that step or after it: the output is the offsets
\* emitted before that step.
C5_NoOffsetAfterAbort ==
    aborted => Len(offsets) = abortLen

\* C6: at every append of an output offset the period in force is at least
\* the Nyquist floor 2 * timescale.
C6_EmitPeriodAtLeastFloor ==
    \A i \in 1..Len(emitPeriods) : emitPeriods[i] >= 2 * timescale


\* C7: a nominal period below 2 * timescale makes Refresh set a null output
\* without running either loop; a nominal period equal to or above 2 * timescale
\* (the input having crossings) makes the engine run.
C7_NyquistRefusal ==
    pc # "start" =>
        /\ nominalPeriod < 2 * timescale =>
              pc = "done" /\ data = "null" /\ maxEdgeRead = -1 /\ offsets = <<>>
        /\ (nominalPeriod >= 2 * timescale /\ din = "supported" /\ crossings # <<>>) =>
              data # "null" /\ (pc \in {"call", "ub"} \/ maxEdgeRead >= 0)

\* C7 witness: a run at exactly the floor that went through a loop and
\* delivered a waveform.
C7_Witness ==
    /\ nominalPeriod = 2 * timescale
    /\ pc = "done"
    /\ data = "cap"
    /\ Len(offsets) > 0

\* C8: with no crossings (or an unsupported input), or with fewer than two
\* edges, Refresh delivers no clock edge (null, or a waveform of zero samples)
\* and reads no edge that does not exist.
C8_NoEdgesNoClock ==
    (din # "supported" \/ Len(crossings) < 2) =>
        /\ maxEdgeRead < Len(edges)
        /\ offsets = <<>>
        /\ pc = "done" => \/ data = "null"
                          \/ data = "cap" /\ samples = <<>>

\* C8 witness: a finished run on a single crossing, which went through a loop.
C8_Witness ==
    /\ pc = "done"
    /\ Len(crossings) = 1
    /\ data = "cap"
    /\ maxEdgeRead = 0

\* C9: in the gated loop a step performs a reacquisition exactly when it
\* changes the gate state from gated to active, and right after it
\* period = initialPeriod = the average, halfPeriod = period/2 and
\* edgepos = edges[nedge] + period.
C9_ReacqOnUngate ==
    [][/\ (reacqs' # reacqs) <=> (gating /\ ~gating')
       /\ (reacqs' # reacqs) =>
             /\ pc = "gate"
             /\ reacqs' = reacqs + 1
             /\ period' = ReacqAvg(nedge)
             /\ initialPeriod' = period'
             /\ halfPeriod' = period' \div 2
             /\ nedge' = nedge
             /\ edgepos' = At(edges, nedge) + period'
       /\ (reacqs' = reacqs /\ pc = "gate") =>
             UNCHANGED <<period, initialPeriod, halfPeriod, edgepos>>]_vars

\* C9 witness: a reacquisition that changed the period and moved edgepos, in a
\* run that had appended offsets before the gate closed.
C9_Witness ==
    /\ pc = "track"
    /\ reacqs = 1
    /\ Len(offsets) > 0
    /\ period # nominalPeriod
    /\ period = initialPeriod
    /\ edgepos = At(edges, nedge) + period


\* the intervals a reacquisition at edges[n] is to use: the next
\* min(ReacqWindow, remaining) edge-to-edge intervals
ReacqIntervals(n) ==
    [i \in 1..Min(ReacqWindow, Len(edges) - 1 - n) |->
        At(edges, n + i) - At(edges, n + i - 1)]

\* m is the element at index floor(Len/2) of the sorted intervals
IsMedian(L, m) ==
    /\ \E i \in DOMAIN L : L[i] = m
    /\ Cardinality({i \in DOMAIN L : L[i] < m}) <= Len(L) \div 2
    /\ Cardinality({i \in DOMAIN L : L[i] <= m}) > Len(L) \div 2

\* the sum of the elements of L with a value in V, V being distinct values
RECURSIVE SumOfValues(_, _)
SumOfValues(L, V) ==
    IF V = {} THEN 0
    ELSE LET v == CHOOSE w \in V : TRUE
         IN  v * Cardinality({i \in DOMAIN L : L[i] = v}) + SumOfValues(L, V \ {v})

\* the integer average of the intervals within 75% to 125% of the median
TrimmedAverage(L) ==
    LET m == CHOOSE v \in {L[i] : i \in DOMAIN L} : IsMedian(L, v)
        V == {v \in {L[i] : i \in DOMAIN L} : 4 * v >= 3 * m /\ 4 * v <= 5 * m}
    IN  SumOfValues(L, V) \div Cardinality({i \in DOMAIN L : L[i] \in V})

\* C10: the period a reacquisition chooses is the integer average of the
\* intervals, among the next min(512, remaining) ones starting at edges[nedge],
\* that lie within 75% to 125% of their median.
C10_ReacqPeriod ==
    [][reacqs' # reacqs => period' = TrimmedAverage(ReacqIntervals(nedge))]_vars

\* C10 witness: a reacquisition over a full window of 512 intervals, with more
\* edges left behind it, that rejected intervals and averaged unequal ones.
C10_Witness ==
    /\ pc = "track"
    /\ reacqs = 1
    /\ Len(edges) - 1 - nedge > ReacqWindow
    /\ period = TrimmedAverage(ReacqIntervals(nedge))
    /\ edgepos = At(edges, nedge) + period
    /\ \A i \in DOMAIN ReacqIntervals(nedge) : ReacqIntervals(nedge)[i] # period

-----------------------------------------------------------------------------
(* The corrections of a visited edge *)

\* a pass of the inner while loop is about to visit edges[nedge]
Visiting == pc = "track" /\ EdgeInUI

\* the visit applies the proportional correction and the nudge
Correcting == Visiting /\ HaveLastEdge(tlast) /\ (hasGate => ~gating)

\* the wrapped phase error the visit uses, in 1/FloatScale
WrappedPhase ==
    IF hasGate
    THEN FloatScale * PhaseErrorGated(edgepos, At(edges, nedge), period, halfPeriod)
    ELSE PhaseErrorNoGating(edgepos, At(edges, nedge), period, halfPeriod, fperiod)

\* the current period estimate, in 1/FloatScale
PeriodEstimate == IF hasGate THEN FloatScale * period ELSE fperiod

\* C11: the phase error a correction uses, after the single wrap, lies in
\* [-period/2, period/2], period being the current period estimate.
C11_WrappedPhaseInRange ==
    Correcting => 2 * Abs(WrappedPhase) <= PeriodEstimate

\* C12: the proportional correction and the nudge are skipped exactly on the
\* first edge the loop visits, which leaves period and edgepos alone, and are
\* applied on every later visited edge while not gated.
C12_FirstEdgeOnlySkipped ==
    [][Visiting =>
          /\ (corrections' = corrections + 1) <=> (visits >= 1 /\ ~(hasGate /\ gating))
          /\ visits = 0 => UNCHANGED <<period, edgepos>>]_vars

\* the distance of the visited edge from the previous real edge
VisitUiLen == At(edges, nedge) - tlast

\* the frequency error the visit computes, in 1/FloatScale
FreqError ==
    IF hasGate
    THEN FloatScale * (period - UiLenGated(At(edges, nedge), tlast, initialPeriod, period))
    ELSE FreqErrorNoGating(At(edges, nedge), tlast, initialPeriod, fperiod)

\* the frequency error with uiLen divided by n, in the arithmetic of the loop
FreqErrorOver(n) ==
    IF hasGate
    THEN FloatScale * (period - TruncDiv(VisitUiLen, n))
    ELSE FRound(fperiod - FRoundQ(VisitUiLen * FloatScale, n))

\* C13: a correcting visit with uiLen below initialPeriod/10 has a frequency
\* error of zero; with uiLen at or above it, uiLen is divided by
\* round(uiLen / initialPeriod) before the error is taken, and nothing is
\* divided (the error is zero) when that multiple is zero.
C13_GlitchAndMultiple ==
    Correcting =>
        LET n == RoundDiv(VisitUiLen, initialPeriod)
        IN  FreqError = IF 10 * VisitUiLen < initialPeriod \/ n = 0 THEN 0
                        ELSE FreqErrorOver(n)

\* C14: in both loops the nudge of a correcting visit moves edgepos backwards
\* exactly when the wrapped phase error used for the proportional correction
\* is positive, and forwards otherwise.
C14_NudgeFollowsWrappedPhase ==
    [][Correcting =>
          /\ WrappedPhase > 0 => edgepos' <= edgepos
          /\ WrappedPhase <= 0 => edgepos' >= edgepos]_vars

-----------------------------------------------------------------------------
(* The gate cursor *)

\* gate sample j (1-based) contains the position: off <= pos < off + dur
GateContains(j, pos) == gate[j].off <= pos /\ pos < gate[j].off + gate[j].dur

\* C15: the gate state a step applies to its edgepos is the value of the gate
\* sample whose interval [offset, offset+duration) contains edgepos, the last
\* sample included, a position equal to offset+duration belonging to the
\* following sample.
C15_GateStateOfContainingSample ==
    [][(pc = "gate" /\ pc' = "track") =>
          \A j \in 1..Len(gate) : GateContains(j, edgepos) => gating' = ~gate[j].val]_vars

\* C16: the gate cursor igate never decreases during a run of the gated loop,
\* a step with a reacquisition included.
C16_CursorForwardOnly ==
    [][igate' >= igate]_vars

\* C16 witness: the cursor has passed two gate samples and the loop has
\* reacquired on the way.
C16_Witness ==
    /\ hasGate
    /\ pc = "track"
    /\ reacqs > 0
    /\ igate >= 2
    /\ edgepos = At(edges, nedge) + period

\* the gate waveform has samples and the first one is false
StartsGated == hasGate /\ Len(gate) > 0 /\ ~gate[1].val

\* C17: with a non-empty gate waveform the loop starts gated exactly when the
\* first gate sample is false, and a run that starts gated appends no offset
\* before a step has had edgepos inside a true gate sample.
C17_StartsGatedUntilActive ==
    [][/\ (pc = "call" /\ hasGate /\ Len(gate) > 0) => (gating' <=> ~gate[1].val)
       /\ (StartsGated /\ offsets' # <<>>) => activeSeen']_vars

\* C18: in a step of InnerLoopWithGating whose gate scan leaves gating active,
\* nothing is appended to the offsets and period, initialPeriod and halfPeriod
\* keep their values, while each real edge behind edgepos is still consumed:
\* nedge moves on by one, tlast takes the edge, and the edge search ends only
\* when no such edge is left.
C18_GatedStepFrame ==
    [][(hasGate /\ pc \in {"gate", "track", "emit"} /\ gating') =>
          /\ UNCHANGED <<offsets, period, initialPeriod, halfPeriod>>
          /\ (pc = "track" /\ EdgeInUI) =>
                (nedge' = nedge + 1 /\ tlast' = At(edges, nedge))
          /\ (pc = "track" /\ pc' = "emit") => ~EdgeInUI]_vars

\* a run gated from its start has consumed real edges without a correction
C18_Witness ==
    /\ StartsGated /\ gating /\ reacqs = 0
    /\ pc = "emit"
    /\ nedge >= 3 /\ tlast = At(edges, nedge - 1)
    /\ period = nominalPeriod /\ offsets = <<>>

\* C19: a call made with the inputs of call 1, after a call with other inputs,
\* returns the offsets (and the data / no-data result) of call 1; each call
\* enters its loop with the nominal period, at edges[0], whatever period and
\* initialPeriod the previous call left behind.
C19_CallsAreIndependent ==
    [][/\ (pc = "call" /\ pc' = "loop") =>
             /\ period' = nominalPeriod /\ initialPeriod' = nominalPeriod
             /\ halfPeriod' = nominalPeriod \div 2
             /\ edgepos' = crossings[1] /\ nedge' = 1 /\ tlast' = 0
       /\ (run >= 3 /\ pc' = "done" /\ pc # "done") =>
             (offsets' = firstCall.offsets /\ data' = firstCall.data)]_vars

\* call 3 has returned the offsets of call 1, after a call with other inputs,
\* and its corrections have moved the period away from the nominal one
C19_Witness ==
    /\ run >= 3 /\ pc = "done" /\ data = "cap" /\ Len(offsets) >= 2
    /\ period # nominalPeriod
    /\ firstCall.offsets = offsets

\* the statements of the two for loops
LoopRunning == pc \in {"loop", "gate", "track", "emit"}

\* what is left to do, most significant first: the real edges not yet
\* consumed, the gate samples not yet passed (twice, plus one while gated: a
\* reacquisition needs a gated loop and a true sample), the distance from
\* edgepos to tend, and the statements left in the current pass of the loop
Remaining ==
    << Len(edges) - nedge,
       2 * (Len(gate) - igate) + (IF gating THEN 1 ELSE 0),
       Max(tend - edgepos, 0),
       CASE pc = "loop" -> (IF LoopCond THEN 4 ELSE 0)
         [] pc = "gate" -> 3
         [] pc = "track" -> 2
         [] OTHER -> 1 >>

\* lexicographic order on tuples of four numbers
LexLess(a, b) ==
    \E k \in 1..4 : a[k] < b[k] /\ \A j \in 1..(k - 1) : a[j] = b[j]

\* one statement of a loop either leaves the loop for the synthesis of the
\* output or leaves less to do, and what is left is never negative
LoopAdvances ==
    /\ \A k \in 1..4 : Remaining[k] >= 0
    /\ \/ pc' = "fill"
       \/ LoopRunning' /\ LexLess(Remaining', Remaining)

\* C20: whatever the edges, the gate waveform and the timescale, each recovery
\* loop terminates: every statement executed inside a loop leaves the loop or
\* leaves less to do, in a measure that cannot decrease for ever, also when a
\* bang-bang nudge or a reacquisition moves edgepos backwards.
C20_LoopsTerminate == [][LoopRunning => LoopAdvances]_vars

\* the same, for a gate waveform that holds at least one sample or no gate
C20_LoopsTerminateWithGateSamples ==
    [][(LoopRunning /\ ~(hasGate /\ gate = << >>)) => LoopAdvances]_vars

\* the unit intervals granted to the loop to settle
LockBound == 100

\* the crossings are at least two and equally spaced
IsPeriodic(c) ==
    Len(c) >= 2 /\ \A i \in 2..Len(c) : c[i] - c[i - 1] = c[2] - c[1]

\* p is within 1% of the spacing T
WithinTolerance(p, T) == 100 * Abs(p - T) <= T

\* C21: for crossings equally spaced T apart, the period in force at every
\* unit interval after the first LockBound ones is within 1% of T.
C21_PeriodLocksToSpacing ==
    IsPeriodic(crossings) =>
        \A k \in (LockBound + 1)..Len(emitPeriods) :
            WithinTolerance(emitPeriods[k], crossings[2] - crossings[1])

\* the same for the non-gated loop and a spacing equal to the nominal period
C21_NoGatingLocksToNominalSpacing ==
    (IsPeriodic(crossings) /\ ~hasGate /\ crossings[2] - crossings[1] = nominalPeriod) =>
        \A k \in 1..Len(emitPeriods) :
            WithinTolerance(emitPeriods[k], nominalPeriod)

\* the successor in the cycle 1, 2, ..., 255, 1
CycleSuccessor(n) == IF n = 255 THEN 1 ELSE n + 1

\* a step that called GetNextSequenceNumber, directly or from SendCommand
SequenceStep == m_nextSequence' # m_nextSequence \/ lastCall' # lastCall

\* C22: GetNextSequenceNumber never returns 0; the first call returns 1 and
\* every later call returns the previous value plus one, 255 being followed by 1.
C22_SequenceSkipsZero ==
    [][SequenceStep =>
        /\ m_lastSequence' \in 1..255
        /\ IF lastCall.op = "none" THEN m_lastSequence' = 1
           ELSE m_lastSequence' = CycleSuccessor(m_lastSequence)]_vars

\* C22 witness: a call has returned 255 and stepped the counter over 0 to 1
C22_Witness ==
    lastCall.op = "getseq" /\ m_lastSequence = 255 /\ m_nextSequence = 1

\* a step of SendCommand
SendStep == wire = << >> /\ wire' # << >>

\* C23: every SendCommand takes one sequence number, the one that was next,
\* and puts it in byte 2 of the header; afterwards m_lastSequence is the number
\* the frame carries and m_nextSequence is its successor in the cycle 1..255.
C23_SendConsumesOneSequence ==
    [][SendStep =>
        /\ wire'[3] = m_nextSequence
        /\ m_lastSequence' = wire'[3]
        /\ m_nextSequence' = CycleSuccessor(wire'[3])
        /\ wire'[3] \in 1..255]_vars

\* C23 witness: a frame in flight carries 255, the next one will carry 1
C23_Witness ==
    wire # << >> /\ wire[3] = 255 /\ m_lastSequence = 255 /\ m_nextSequence = 1

\* the command is neither empty nor a single newline
Answerable(cmd) == cmd # << >> /\ cmd # <<Newline>>

\* C24: the frame of a command that is neither empty nor one newline is the
\* operation byte with DATA and EOI, version 1, the sequence number, a zero, the
\* command length in 4 bytes, most significant first, and the command; sent
\* back and read by ReadReply it passes the header checks and ReadReply returns
\* the command.
C24_FrameRoundTrip ==
    /\ (wire # << >> /\ Answerable(lastCall.arg)) =>
        /\ Len(wire) = 8 + Len(lastCall.arg)
        /\ wire[1] = OP_DATA + OP_EOI /\ wire[2] = 1 /\ wire[4] = 0
        /\ \A i \in 5..8 : wire[i] \in 0..255
        /\ wire[5] * 2^24 + wire[6] * 2^16 + wire[7] * 2^8 + wire[8] = Len(lastCall.arg)
        /\ SubSeq(wire, 9, Len(wire)) = lastCall.arg
    /\ (lastCall.op = "send" /\ Answerable(lastCall.arg) /\ blocks # << >>) =>
        /\ reply.done /\ ~reply.error
        /\ reply.text = lastCall.arg
    /\ (lastCall.op = "send" /\ Answerable(lastCall.arg) /\ reply.done) => ~reply.error

\* C24 witness: a two-byte command beginning with a newline came back whole
C24_Witness ==
    /\ lastCall.op = "send" /\ lastCall.arg = <<Newline, 65>>
    /\ reply.done /\ reply.text = <<Newline, 65>>

RECURSIVE Kept(_)
\* the data ReadReply holds after the blocks bs: a block with EOI that is empty
\* or one newline, arriving when nothing is held, is dropped
Kept(bs) ==
    IF bs = << >> THEN << >>
    ELSE LET before == Kept(SubSeq(bs, 1, Len(bs) - 1))
             b == bs[Len(bs)]
             small == b.data = << >> \/ b.data = <<Newline>>
             eoi == b.op = OP_DATA + OP_EOI
         IN  IF eoi /\ small /\ before = << >> THEN << >> ELSE before \o b.data

\* block i carries EOI and is not dropped: it ends the reply
Ends(bs, i) ==
    /\ bs[i].op = OP_DATA + OP_EOI
    /\ ~(/\ bs[i].data \in {<< >>, <<Newline>>}
         /\ Kept(SubSeq(bs, 1, i - 1)) = << >>)

\* C25: ReadReply returns, in order of arrival, the data of the blocks up to
\* and including the first block with EOI that ends the reply; a block with EOI
\* that is empty or one newline ends the reply when data is held, and is
\* dropped, ReadReply reading on, when none is held.
C25_ReplyIsConcatenation ==
    /\ (reply.done /\ ~reply.error) =>
        /\ blocks # << >>
        /\ Ends(blocks, Len(blocks))
        /\ \A i \in 1..(Len(blocks) - 1) : ~Ends(blocks, i)
        /\ reply.text = Kept(blocks)
    /\ (vpc = "read" /\ blocks # << >>) =>
        /\ ~reply.done
        /\ \A i \in 1..Len(blocks) : ~Ends(blocks, i)
        /\ payload = Kept(blocks)

\* C25 witness: a reply that began after a dropped EOI block and was ended by
\* an empty EOI block
C25_Witness ==
    /\ reply.done /\ ~reply.error /\ Len(blocks) = 3
    /\ blocks[1].op = OP_DATA + OP_EOI /\ blocks[1].data = <<Newline>>
    /\ blocks[2].op = OP_DATA /\ blocks[2].data = <<65>>
    /\ blocks[3].op = OP_DATA + OP_EOI /\ blocks[3].data = << >>
    /\ reply.text = <<65>>

\* the header at the front of the socket, while ReadReply waits for it
AtHeader == vpc = "read" /\ Len(rx) >= 8

\* C26: a header whose version byte is not 1 or whose reserved byte is not 0
\* makes ReadReply return the empty string, whatever was accumulated; a header
\* that passes both is not refused, whatever its sequence byte.
C26_BadHeaderEmptiesReply ==
    [][AtHeader /\ (vpc' # vpc \/ rx' # rx) =>
        IF rx[2] # 1 \/ rx[4] # 0
        THEN reply'.done /\ reply'.error /\ reply'.text = << >> /\ vpc' = "idle"
        ELSE ~reply'.error]_vars

\* C26 witness: the reply was refused with data accumulated, after a block
\* whose sequence byte was not m_lastSequence had been accepted
C26_Witness ==
    /\ reply.done /\ reply.error /\ reply.text = << >>
    /\ payload # << >>
    /\ \E i \in 1..Len(blocks) : blocks[i].seq # m_lastSequence /\ blocks[i].data # << >>

\* the channels the second loop over the channels has filled
FilledChannels ==
    {k \in 1..Len(streams) : csvpc \in {"fill", "done", "ub"} /\ k <= chan}

\* C27: in a filled channel with nrows >= 2, durations[j] = offsets[j+1] -
\* offsets[j] for every j < nrows-1 and the last duration equals the one before
\* it; with nrows = 1 no element before index 0 is read.
C27_DurationsFromOffsets ==
    /\ \A k \in FilledChannels :
          LET w == streams[k]
              n == Len(w.offsets)
          IN  n >= 2 =>
                /\ \A j \in 0..(n - 2) :
                      At(w.durations, j) = At(w.offsets, j + 1) - At(w.offsets, j)
                /\ At(w.durations, n - 1) = At(w.durations, n - 2)
    /\ ~readBefore

\* C27, the part that holds: every duration but the last is the distance to
\* the next offset
C27_InnerDurations ==
    \A k \in FilledChannels :
       LET w == streams[k]
           n == Len(w.offsets)
       IN  \A j \in 0..(n - 2) :
              At(w.durations, j) = At(w.offsets, j + 1) - At(w.offsets, j)

\* C28: every data row has as many data fields as the first data row; at the
\* first row that has not, the import stops with an error and no channel has an
\* output waveform.
C28_FieldCountMismatchStops ==
    \A k \in 2..Len(rowFields) :
       rowFields[k] # rowFields[1] =>
          /\ k = Len(rowFields)
          /\ csvpc = "error"
          /\ streams = << >>

\* C28, the part that holds: a row whose count differs from ncols, once a row
\* has set ncols, stops the import with no stream set
C28_MismatchAfterCountSet ==
    [][(csvpc = "parse" /\ ncols # 0 /\ Len(rowFields') > Len(rowFields)
        /\ Last(rowFields') # ncols)
       => (csvpc' = "error" /\ streams' = << >>)]_vars

RECURSIVE Fields(_)
\* the fields of a line, split at its commas
Fields(line) ==
    IF \A j \in 1..Len(line) : line[j] # "," THEN <<line>>
    ELSE LET c == CHOOSE j \in 1..Len(line) :
                     line[j] = "," /\ \A k \in 1..(j - 1) : line[k] # ","
         IN  <<SubSeq(line, 1, c - 1)>> \o Fields(SubSeq(line, c + 1, Len(line)))

\* line k of the file is blank or a comment
Skipped(k) == csvFile[k] = << >> \/ csvFile[k][1] = "#"

\* C29: when the first row that is not a comment is a header row, the channel
\* names are its fields behind the first, in order, and the row adds no
\* timestamp and no entry to a data column.
C29_HeaderNamesChannels ==
    [][(headerAt' # headerAt /\ \A k \in 1..(headerAt' - 1) : Skipped(k)) =>
        /\ names' = Tail(Fields(csvFile[headerAt']))
        /\ timestamps' = timestamps
        /\ columns' = columns]_vars

\* C29, the part that holds: the header row adds no timestamp
C29_HeaderAddsNoTimestamp ==
    [][headerAt' # headerAt => timestamps' = timestamps]_vars

\* a pass of the loop over the cycles
CycleStep == apc = "cycle" /\ ci' = ci + 2

\* what the claim says of a pass, for the inputs of kind kinds
CyclePassOK(kinds) ==
    (CycleStep /\ areaIn.kind \in kinds) =>
        /\ ci % 2 = 0 /\ ci + 2 < Len(cycleEdges)
        /\ Len(cap'.offsets) \in {Len(cap.offsets), Len(cap.offsets) + 1}
        /\ Len(cap'.offsets) > Len(cap.offsets) =>
              /\ Last(cap'.offsets) = At(cycleEdges, ci) \div areaIn.timescale
              /\ Last(cap'.durations) > 0
        /\ areaReads'.edges \subseteq 0..(Len(cycleEdges) - 1)
        /\ areaReads'.samples \subseteq 0..(areaIn.length - 1)
        /\ areaReads'.samples =
              {j \in 0..(areaIn.length - 1) :
                  /\ j >= At(cycleEdges, ci) \div areaIn.timescale
                  /\ j <= At(cycleEdges, ci + 2) \div areaIn.timescale}

\* with fewer than 2 crossings the output is null and the scalar NaN
FewCrossingsOK ==
    (apc = "done" /\ areaIn.kind # "null" /\ areaIn.measurement_type = "CYCLE_AREA"
     /\ Len(cycleEdges) < 2) => (capData = "null" /\ m_value = NaN)

\* C30: in per-cycle mode the output is null and the scalar NaN when fewer than
\* 2 crossings are found; otherwise every pass is for an even i with i+2 below
\* the number of edges, emits at most one sample, with offset edges[i] /
\* timescale and a duration above 0, over the samples from edges[i] to
\* edges[i+2], and reads no edge and no sample outside its array, for uniform
\* and for sparse inputs.
C30_PerCycleArea ==
    [][FewCrossingsOK' /\ CyclePassOK({"uniform", "sparse"})]_vars

\* C30, the part that holds: the same for uniform inputs alone
C30_PerCycleAreaUniform ==
    [][FewCrossingsOK' /\ CyclePassOK({"uniform"})]_vars

\* C32: in both recovery loops every read edges[k] has k < edges.size(), for
\* every edge sequence of at least one edge: the read of edges[0] at loop
\* entry, edges[nedge] and edges[++nedge] of the edge search, edges[nedge+i] of
\* a reacquisition; and once a Nyquist abort has set nedge to edges.size() no
\* edge is read any more.
C32_EdgeReadsInRange ==
    [][/\ Len(edges') >= 1 => maxEdgeRead' < Len(edges')
       /\ (aborted /\ nedge = Len(edges)) => maxEdgeRead' = maxEdgeRead]_vars

\* C32 witness: a finished gated run that reacquired, advanced up to the last
\* edge and read it, and then aborted on the Nyquist floor.
C32_Witness ==
    /\ pc = "done"
    /\ hasGate
    /\ reacqs > 0
    /\ visits > 0
    /\ maxEdgeRead = Len(edges) - 1
    /\ aborted
    /\ nedge = Len(edges)

\* C33: in InnerLoopWithGating every read of a gate sample (offset, duration
\* or value) is at an index below the size of the gate waveform, for every
\* size of the gate waveform, 0 and 1 included.
C33_GateReadsInRange ==
    hasGate => maxGateRead < Len(gate)

\* C33, the part that holds: the same for gate waveforms of at least one sample
C33_GateReadsInRangeNonEmpty ==
    (hasGate /\ Len(gate) >= 1) => maxGateRead < Len(gate)

-----------------------------------------------------------------------------
(* ComplexSpectrogramFilter (ComplexSpectrogramFilter.cpp)                 *)
(*                                                                         *)
(* One behaviour of SpecSpectrogram is a sequence of calls of Refresh on   *)
(* one filter object; between two calls the input waveforms and the FFT    *)
(* length parameter may change.  The timescale of the input and the centre *)
(* frequency stay the same, so that the bin size and the bottom edge       *)
(* frequency of the output depend on the FFT length alone.                 *)

MaxInput == 8          \* longest I or Q input waveform

\* the values of the FFT length parameter
FFTLengths == {2, 4, 8}

\* what Refresh finds at its inputs: I and Q waveforms of i and q samples, or
\* an input that is missing
SpectrogramInputs ==
    [connected : BOOLEAN, i : 0..MaxInput, q : 0..MaxInput, fftlen : FFTLengths]

\* VulkanFFTPlan::size(): the number of points the plan was made for
PlanSize(plan) == plan.npoints

\* make_unique<VulkanFFTPlan>(fftlen, nouts, DIRECTION_FORWARD, nblocks, TYPE_COMPLEX)
MakePlan(fftlen, nblocks) == [null |-> FALSE, npoints |-> fftlen, numBatches |-> nblocks]

\* the plan ReallocateBuffers leaves in m_vkPlan (lines 107-116): an existing
\* plan is dropped when its size differs from fftlen, and a plan is made when
\* there is none
ReallocatedPlan(plan, fftlen, nblocks) ==
    LET kept == IF ~plan.null /\ PlanSize(plan) # fftlen THEN NoPlan ELSE plan
    IN  IF kept.null THEN MakePlan(fftlen, nblocks) ELSE kept

\* the output waveform (lines 162-194): an existing one of the same width and
\* height is reused, else a new one is made
SpectrogramOutput(nblocks, nouts) == [kind |-> "cap", width |-> nblocks, height |-> nouts]

\* ComplexSpectrogramFilter::Refresh (lines 124-325)
Spectrogram_Refresh ==
    \E in \in SpectrogramInputs :
        IF ~in.connected
        THEN /\ sgData' = [kind |-> "null", width |-> 0, height |-> 0]
             /\ sgCall' = [kind |-> "null", i |-> in.i, q |-> in.q, fftlen |-> in.fftlen,
                           nblocks |-> 0, plan |-> NoPlan]
             /\ UNCHANGED <<spectroOthers, m_cachedFFTLength, m_cachedFFTNumBlocks,
                            m_vkPlan, m_rdinbuf, m_rdoutbuf>>
        ELSE LET inlen == Min(in.i, in.q)
                 fftlen == in.fftlen
                 nblocks == inlen \div fftlen
                 nouts == fftlen
                 realloc == fftlen # m_cachedFFTLength \/ nblocks # m_cachedFFTNumBlocks
                 plan == IF realloc THEN ReallocatedPlan(m_vkPlan, fftlen, nblocks)
                         ELSE m_vkPlan
             IN  /\ m_cachedFFTLength' = IF realloc THEN fftlen ELSE m_cachedFFTLength
                 /\ m_cachedFFTNumBlocks' = IF realloc THEN nblocks
                                            ELSE m_cachedFFTNumBlocks
                 /\ m_vkPlan' = plan
                 /\ sgData' = SpectrogramOutput(nblocks, nouts)
                 /\ m_rdinbuf' = nblocks * fftlen * 2
                 /\ m_rdoutbuf' = nblocks * (nouts * 2)
                 /\ sgCall' = [kind |-> "fft", i |-> in.i, q |-> in.q, fftlen |-> fftlen,
                               nblocks |-> nblocks, plan |-> plan]
                 /\ UNCHANGED spectroOthers

InitSpectrogram ==
    /\ ClockAtRest
    /\ TransportAtRest
    /\ ImportAtRest
    /\ AreaAtRest
    /\ SpectrogramAtRest

NextSpectrogram == Spectrogram_Refresh

SpecSpectrogram == InitSpectrogram /\ [][NextSpectrogram]_vars

\* C31: the FFT plan a call of Refresh hands its buffers to was made for that
\* call's FFT length and for that call's number of blocks, whatever the calls
\* before it were; in particular after a change of the block count alone.
C31_PlanMatchesCall ==
    sgCall.kind = "fft" =>
        /\ ~sgCall.plan.null
        /\ sgCall.plan.npoints = sgCall.fftlen
        /\ sgCall.plan.numBatches = sgCall.nblocks

\* C31, the part that holds: the plan used is never null and was made for the
\* call's FFT length
C31_PlanMatchesLength ==
    sgCall.kind = "fft" =>
        /\ ~sgCall.plan.null
        /\ sgCall.plan.npoints = sgCall.fftlen

\* C31, the part that holds: the cached numbers are those of the call
C31_CacheMatchesCall ==
    sgCall.kind = "fft" =>
        /\ m_cachedFFTLength = sgCall.fftlen
        /\ m_cachedFFTNumBlocks = sgCall.nblocks

=============================================================================
